---- MODULE Spec2Model ----
(***************************************************************************)
(* A model of the large temp table block of VoltDB's execution engine      *)
(* (LargeTempTableBlock), of the block cache that pins, evicts and reloads *)
(* it, of the in-place block sorter (LTTBlockSorter) and of the k-way      *)
(* merge of sorted blocks.                                                 *)
(*                                                                         *)
(* Memory is modelled cell by cell.  A block's buffer is a function from   *)
(* offsets 0..BLOCK_SIZE_IN_BYTES-1 to integer cells; a pointer is the     *)
(* integer m_storage + offset.  A tuple takes m_tupleLength cells: the     *)
(* status byte, then the inline body, whose first cell is the string ref   *)
(* of column 0 (a pointer, NULL for a null string) and whose other cells   *)
(* are the TINYINT padding columns.  A non-inlined string of n characters  *)
(* takes 1 + n cells of the non-inlined region: its length, then its       *)
(* characters.                                                             *)
(***************************************************************************)
EXTENDS Integers, Sequences, FiniteSets, TLC

VARIABLES
    BLOCK_SIZE_IN_BYTES, \* the size of every block (fixed by Init, scaled down)
    blocks,              \* block id -> the fields of the LargeTempTableBlock
    cacheOrigAddress,    \* block id -> address of the buffer when it was released
    aborted,             \* an assert() has failed: the process is gone
    lastOp,              \* the last call made and what it returned
    sorter,              \* the call of LTTBlockSorter::sort in progress
    merge,               \* the k-way merge of sorted blocks in progress
    repack,              \* the sort of a block by std::sort and re-insertion
    iter                 \* the iterators of the iterator test

vars == <<BLOCK_SIZE_IN_BYTES, blocks, cacheOrigAddress, aborted, lastOp, sorter, merge,
          repack, iter>>

----------------------------------------------------------------------------
(* Bounds of the model *)

\* BLOCK_SIZE_IN_BYTES of the block life-cycle specification
SmallBlockSize == 6

\* schema->tupleLength(): cells of the inline body of a tuple
SchemaTupleLength == 1

\* longest string the callers insert
MaxStrLen == 1

\* largest size handed to a direct allocate()
MaxAlloc == 1

\* BLOCK_SIZE_IN_BYTES of the block that is sorted step by step
SortBlockSize == 18

\* BLOCK_SIZE_IN_BYTES of the blocks of the table that is merged
MergeBlockSize == 8

\* numInputBlocks: the blocks of the table that is merged
NumInputBlocks == 4

\* the most tuples inserted into the table that is merged
MaxMergeTuples == 7

\* BLOCK_SIZE_IN_BYTES of the two blocks of the sort by std::sort
RepackBlockSize == 12

\* BLOCK_SIZE_IN_BYTES of the blocks of the table whose merge loop is
\* followed to its end
LoopBlockSize == 6

\* the blocks of that table
LoopNumBlocks == 3

\* the most tuples inserted into that table
LoopMaxTuples == 5

\* BLOCK_SIZE_IN_BYTES of the blocks the cache stores and reloads during the
\* first phase of the sort
Phase1BlockSize == 6

\* the blocks of the table sorted while the cache stores and reloads them
Phase1NumBlocks == 2

\* the most tuples inserted into that table
Phase1MaxTuples == 4

\* BLOCK_SIZE_IN_BYTES of the block the iterators walk
IterBlockSize == 10

\* the largest n of it + n, it - n and it[n]
MaxStep == 3

----------------------------------------------------------------------------
(* Program constants and the inputs *)

NULL == 0

\* size of the status byte in front of every tuple
TUPLE_HEADER_SIZE == 1

\* the status byte of an active tuple
ACTIVE == 1

\* blockInput{0, schema}, blockOutput{1, schema}
BlockIds == {0, 1}

\* the addresses operator new[] may return for a block's buffer
Bases == {100, 200, 300}

Chars == {1, 2}

StringsOfLen(n) == [1..n -> Chars]

Strings == UNION {StringsOfLen(n) : n \in 0..MaxStrLen}

NullValue == [isNull |-> TRUE, str |-> <<>>]

StringValue(s) == [isNull |-> FALSE, str |-> s]

\* the values column 0 of a source tuple may hold
Values == {NullValue} \cup {StringValue(s) : s \in Strings}

----------------------------------------------------------------------------
(* The schema *)

\* the tuple length without the status byte
m_tupleLength_NoHeader == SchemaTupleLength

\* LttBlockIterator: m_tupleLength(schema->tupleLength() + TUPLE_HEADER_SIZE)
m_tupleLength == SchemaTupleLength + TUPLE_HEADER_SIZE

\* offset, within a tuple, of the string ref of column 0
RefOffset == TUPLE_HEADER_SIZE

\* the cells of a tuple whose column 0 is the string ref `ref` and whose
\* columns i >= 1 hold int8_t(i), as fillBlock sets them
TupleCells(ref) ==
    [k \in 1..m_tupleLength |->
        IF k = 1 THEN ACTIVE
        ELSE IF k = RefOffset + 1 THEN ref
        ELSE k - RefOffset - 1]

\* getNonInlinedMemorySizeForTempTable(): the length cell and the characters
NonInlinedSize(v) == IF v.isNull THEN 0 ELSE 1 + Len(v.str)

\* the cells of the non-inlined object of a string
ObjectCells(s) == <<Len(s)>> \o s

----------------------------------------------------------------------------
(* The block *)

\* data with seq written at offset off (cells outside the buffer are dropped)
WriteCells(data, off, seq) ==
    [o \in DOMAIN data |->
        IF off <= o /\ o < off + Len(seq) THEN seq[o - off + 1] ELSE data[o]]

\* LargeTempTableBlock(id, schema) with its buffer at address base
NewBlock(base, size) ==
    [ m_storage                 |-> base,
      data                      |-> [o \in 0..(size - 1) |-> 0],
      m_tupleInsertionPoint     |-> base,
      m_nonInlinedInsertionPoint|-> base + size,
      m_isPinned                |-> FALSE,
      m_isStored                |-> FALSE,
      m_activeTupleCount        |-> 0 ]

isResident(blk) == blk.m_storage # NULL

isStored(blk) == blk.m_isStored

\* isPinned() that never reports a pin
isPinned_Never(blk) == FALSE

isPinned(blk) == blk.m_isPinned

activeTupleCount(blk) == blk.m_activeTupleCount

address(blk) == blk.m_storage

\* the free space between the tuple region and the non-inlined region
FreeGap(blk) == blk.m_nonInlinedInsertionPoint - blk.m_tupleInsertionPoint

BlockEnd(blk) == blk.m_storage + BLOCK_SIZE_IN_BYTES

getAllocatedTupleMemory(blk) == blk.m_tupleInsertionPoint - blk.m_storage

getAllocatedPoolMemory(blk) == BlockEnd(blk) - blk.m_nonInlinedInsertionPoint

getAllocatedMemory(blk) == IF isResident(blk) THEN BLOCK_SIZE_IN_BYTES ELSE 0

\* allocate(size): the pool the non-inlined objects are copied into
allocate(blk, size) ==
    [ ptr |-> blk.m_nonInlinedInsertionPoint - size,
      blk |-> [blk EXCEPT !.m_nonInlinedInsertionPoint = @ - size] ]

\* insertTuple that refuses a tuple that fits exactly
insertTuple_NeedsSpare(blk, v) ==
    IF FreeGap(blk) <= m_tupleLength + NonInlinedSize(v)
    THEN [ret |-> FALSE, blk |-> blk]
    ELSE
      LET a    == IF v.isNull THEN [ptr |-> NULL, blk |-> blk]
                  ELSE allocate(blk, NonInlinedSize(v))
          obj  == IF v.isNull THEN <<>> ELSE ObjectCells(v.str)
          d1   == WriteCells(a.blk.data, a.ptr - blk.m_storage, obj)
          d2   == WriteCells(d1, blk.m_tupleInsertionPoint - blk.m_storage,
                             TupleCells(a.ptr))
      IN [ret |-> TRUE,
          blk |-> [a.blk EXCEPT !.data = d2,
                                !.m_tupleInsertionPoint = @ + m_tupleLength,
                                !.m_activeTupleCount = @ + 1]]

\* insertTuple(source): source is a tuple whose column 0 holds the value v
insertTuple(blk, v) ==
    IF FreeGap(blk) < m_tupleLength + NonInlinedSize(v)
    THEN [ret |-> FALSE, blk |-> blk]
    ELSE
      LET a    == IF v.isNull THEN [ptr |-> NULL, blk |-> blk]
                  ELSE allocate(blk, NonInlinedSize(v))
          obj  == IF v.isNull THEN <<>> ELSE ObjectCells(v.str)
          d1   == WriteCells(a.blk.data, a.ptr - blk.m_storage, obj)
          d2   == WriteCells(d1, blk.m_tupleInsertionPoint - blk.m_storage,
                             TupleCells(a.ptr))
      IN [ret |-> TRUE,
          blk |-> [a.blk EXCEPT !.data = d2,
                                !.m_tupleInsertionPoint = @ + m_tupleLength,
                                !.m_activeTupleCount = @ + 1]]

\* the cells of the tuple at address addr of a resident block
TupleAt(blk, addr) ==
    [k \in 1..m_tupleLength |-> blk.data[addr - blk.m_storage + k - 1]]

\* begin() + i without the tuple length
TupleAddress_Unscaled(blk, i) == blk.m_storage + i

\* begin() + i: the address of the i-th tuple (from 0) of a block
TupleAddress(blk, i) == blk.m_storage + i * m_tupleLength

\* a string ref moved by offset, the null ref too
RelocatedRef_ShiftsNull(ref, offset) == ref + offset

\* a string ref moved by offset; a null ref stays null
RelocatedRef(ref, offset) == IF ref = NULL THEN NULL ELSE ref + offset

\* a tuple's cells copied as they are, the string ref still that of the source
RelocatedTuple_Unmoved(cells, offset) == cells

\* a tuple's cells with its string ref moved by offset
RelocatedTuple(cells, offset) ==
    [cells EXCEPT ![RefOffset + 1] = RelocatedRef(@, offset)]

\* the relocating insert that also refuses a tuple that fits exactly
insertTupleRelocateNonInlinedFields_OffByOne(blk, cells, origAddress) ==
    IF FreeGap(blk) <= m_tupleLength
    THEN [ret |-> FALSE, blk |-> blk]
    ELSE [ret |-> TRUE,
          blk |-> [blk EXCEPT
             !.data = WriteCells(@, blk.m_tupleInsertionPoint - blk.m_storage,
                           RelocatedTuple(cells, blk.m_storage - origAddress)),
             !.m_tupleInsertionPoint = @ + m_tupleLength,
             !.m_activeTupleCount = @ + 1]]

\* insertTupleRelocateNonInlinedFields(source, origAddress)
insertTupleRelocateNonInlinedFields(blk, cells, origAddress) ==
    IF FreeGap(blk) < m_tupleLength
    THEN [ret |-> FALSE, blk |-> blk]
    ELSE [ret |-> TRUE,
          blk |-> [blk EXCEPT
             !.data = WriteCells(@, blk.m_tupleInsertionPoint - blk.m_storage,
                           RelocatedTuple(cells, blk.m_storage - origAddress)),
             !.m_tupleInsertionPoint = @ + m_tupleLength,
             !.m_activeTupleCount = @ + 1]]

\* copyNonInlinedData that takes one byte more than the source's region has
copyNonInlinedData_OneMore(blk, src) ==
    LET n   == getAllocatedPoolMemory(src)
        off == BLOCK_SIZE_IN_BYTES - n
    IN [blk EXCEPT
          !.data = WriteCells(@, off,
                      [k \in 1..n |-> src.data[off + k - 1]]),
          !.m_nonInlinedInsertionPoint = blk.m_storage + off - 1]

\* copyNonInlinedData that moves the insertion point and copies nothing
copyNonInlinedData_PointerOnly(blk, src) ==
    [blk EXCEPT !.m_nonInlinedInsertionPoint =
                    blk.m_storage + BLOCK_SIZE_IN_BYTES - getAllocatedPoolMemory(src)]

\* copyNonInlinedData(srcBlock)
copyNonInlinedData(blk, src) ==
    LET n   == getAllocatedPoolMemory(src)
        off == BLOCK_SIZE_IN_BYTES - n
    IN [blk EXCEPT
          !.data = WriteCells(@, off,
                      [k \in 1..n |-> src.data[off + k - 1]]),
          !.m_nonInlinedInsertionPoint = blk.m_storage + off]

\* relocateNonInlinedFields(origAddress): every active tuple's string ref is
\* moved by (m_storage - origAddress)
relocateNonInlinedFields(blk, origAddress) ==
    LET isRef(o) == /\ o < blk.m_activeTupleCount * m_tupleLength
                    /\ o % m_tupleLength = RefOffset
    IN [blk EXCEPT !.data =
          [o \in DOMAIN @ |->
              IF isRef(o) THEN RelocatedRef(@[o], blk.m_storage - origAddress)
              ELSE @[o]]]

\* releaseData() that gives the buffer away without marking the block stored
releaseData_NotStored(blk) == [blk EXCEPT !.m_storage = NULL]

\* releaseData(): the buffer goes to the caller, the block is marked stored
releaseData(blk) == [blk EXCEPT !.m_storage = NULL, !.m_isStored = TRUE]

\* setData(origAddress, storage): storage is the buffer at address base
setData(blk, origAddress, base) ==
    relocateNonInlinedFields(
        [blk EXCEPT !.m_storage = base,
                    !.m_tupleInsertionPoint = @ + (base - origAddress),
                    !.m_nonInlinedInsertionPoint = @ + (base - origAddress)],
        origAddress)

\* unpin() that leaves the block pinned
unpin_KeepsPinned(blk) == [ok |-> blk.m_isPinned, blk |-> blk]

\* pin() without its assertion
pin_NoAssert(blk) == [ok |-> TRUE, blk |-> [blk EXCEPT !.m_isPinned = TRUE]]

\* pin() that checks the flag and does not set it
pin_NoFlag(blk) == [ok |-> ~blk.m_isPinned, blk |-> blk]

\* pin(): ok is the assertion
pin(blk) == [ok |-> ~blk.m_isPinned, blk |-> [blk EXCEPT !.m_isPinned = TRUE]]

\* unpin(): ok is the assertion
unpin(blk) == [ok |-> blk.m_isPinned, blk |-> [blk EXCEPT !.m_isPinned = FALSE]]

\* clearForTest that resets the non-inlined insertion point to the start of
\* the buffer and leaves the tuple insertion point where it is
clearForTest_WrongEnd(blk) ==
    [blk EXCEPT !.m_nonInlinedInsertionPoint = blk.m_storage,
                !.m_activeTupleCount = 0]

\* clearForTest that forgets the tuple count
clearForTest_KeepsCount(blk) ==
    [blk EXCEPT !.m_tupleInsertionPoint = blk.m_storage,
                !.m_nonInlinedInsertionPoint = blk.m_storage + BLOCK_SIZE_IN_BYTES]

clearForTest(blk) ==
    [blk EXCEPT !.m_tupleInsertionPoint = blk.m_storage,
                !.m_nonInlinedInsertionPoint = blk.m_storage + BLOCK_SIZE_IN_BYTES,
                !.m_activeTupleCount = 0]

----------------------------------------------------------------------------
(* The iterator, the comparator and the sorter *)

\* C++ division of integers, which rounds towards 0
TruncDiv(a, b) == IF a >= 0 THEN a \div b ELSE -((-a) \div b)

\* it + n: m_tupleAddress += n * m_tupleLength
ItPlus(it, n) == it + n * m_tupleLength

\* it - that without the division by the tuple length
ItDiff_Unscaled(it, that) == it - that

\* it - that: (m_tupleAddress - that.m_tupleAddress) / m_tupleLength
ItDiff(it, that) == TruncDiv(it - that, m_tupleLength)

\* ++it with the address moved by one byte
ItInc_OneByte(it) == it + 1

\* ++it: m_tupleAddress += m_tupleLength
ItInc(it) == it + m_tupleLength

\* --it: m_tupleAddress -= m_tupleLength
ItDec(it) == it - m_tupleLength

\* it - n with the address moved by n bytes
ItMinus_Unscaled(it, n) == it - n

\* it - n: m_tupleAddress -= n * m_tupleLength
ItMinus(it, n) == it - n * m_tupleLength

\* *it: the tuple at m_tupleAddress, named by its address
ItDeref(it) == it

\* it[n]: *temp for temp{*this + n}
ItIndex(it, n) == ItDeref(ItPlus(it, n))

\* it == that: the tuple addresses are equal
ItEq(it, that) == it = that

\* it < that: the tuple addresses compare
ItLess(it, that) == it < that

\* begin(): the iterator on the first tuple
begin(blk) == blk.m_storage

\* end(): the iterator past the last tuple
end(blk) == blk.m_tupleInsertionPoint

\* the cell at address a, read through a buffer at address base holding
\* data; an address outside the buffer reads as -1, which no cell holds
ReadCell(data, base, a) ==
    IF base <= a /\ a < base + BLOCK_SIZE_IN_BYTES THEN data[a - base] ELSE -1

\* toTableTuple(schema).getNValue(0) of the tuple at address t: null, or the
\* characters the string ref leads to
getNValue0(data, base, t) ==
    LET ref == ReadCell(data, base, t + RefOffset)
        n   == ReadCell(data, base, ref)
    IN IF ref = NULL THEN <<"null">>
       ELSE <<"string", [k \in 1..n |-> ReadCell(data, base, ref + k)]>>

\* s < t for two strings, character by character, a prefix first
StringLess(s, t) ==
    \E k \in 1..(Len(t)) :
        /\ \A h \in 1..(k - 1) : h <= Len(s) /\ s[h] = t[h]
        /\ \/ k > Len(s)
           \/ (k <= Len(s) /\ s[k] < t[k])

\* nval0.compare(nval1) == VALUE_COMPARE_LESSTHAN: null is less than every
\* string and equal to null
ValueLess(v0, v1) ==
    IF v1[1] = "null" THEN FALSE
    ELSE IF v0[1] = "null" THEN TRUE
    ELSE StringLess(v0[2], v1[2])

\* FirstFieldComparator on the tuples at addresses t0 and t1
FirstFieldComparator(data, base, t0, t1) ==
    ValueLess(getNValue0(data, base, t0), getNValue0(data, base, t1))

\* the cells of the tuple at address t
CellsAt(data, base, t) == [k \in 1..m_tupleLength |-> ReadCell(data, base, t + k - 1)]

\* a swap whose memcpys copy one cell more than the tuple length
swap_OneCellMore(data, base, t0, t1) ==
    IF t0 = t1 THEN data
    ELSE LET more(t) == [k \in 1..(m_tupleLength + 1) |-> ReadCell(data, base, t + k - 1)]
             d1 == WriteCells(data, t0 - base, more(t1))
         IN WriteCells(d1, t1 - base, more(t0))

\* a swap whose third memcpy is missing
swap_TwoCopies(data, base, t0, t1) ==
    IF t0 = t1 THEN data
    ELSE WriteCells(data, t0 - base, CellsAt(data, base, t1))

\* LTTBlockSorter::swap: the three memcpy through the scratch tuple
swap(data, base, t0, t1) ==
    IF t0 = t1 THEN data
    ELSE LET tempBuffer == CellsAt(data, base, t0)
             d1 == WriteCells(data, t0 - base, CellsAt(data, base, t1))
         IN WriteCells(d1, t1 - base, tempBuffer)

\* A call of sort(beginIt, endIt) in progress: where it is (at), its range,
\* numElems (n) and its loop variables i and j
Frame(beginIt, endIt) ==
    [at |-> "top", beginIt |-> beginIt, endIt |-> endIt, n |-> 0, i |-> 0, j |-> 0]

\* the sorter before sort(begin(), end()) of block b is called
IdleSorter == [pc |-> "idle", blk |-> 0, stack |-> <<>>, input |-> <<>>,
               ncmp |-> 0, nswap |-> 0]

\* the sorter as sort(beginIt, endIt) is called on block b holding data
StartedSorter(b, data, beginIt, endIt) ==
    [pc |-> "sorting", blk |-> b, stack |-> <<Frame(beginIt, endIt)>>,
     input |-> data, ncmp |-> 0, nswap |-> 0]

\* no merge is in progress
IdleMerge == [pc |-> "idle"]

\* no sort by std::sort and re-insertion is in progress
IdleRepack == [pc |-> "idle"]

\* the iterator test is not running
IdleIter == [pc |-> "idle"]

\* the sorter with its innermost call replaced by f
WithTop(st, f) == [st EXCEPT !.stack[Len(st.stack)] = f]

\* the innermost call returns
Return(st) ==
    LET rest == SubSeq(st.stack, 1, Len(st.stack) - 1)
    IN [st EXCEPT !.stack = rest,
                  !.pc = IF rest = <<>> THEN "done" ELSE "sorting"]

\* the head of a loop of sort whose switch has the cases 0 and 1 only
SortTop_NoInsertionSort(st, f, data, base) ==
    LET numElems == ItDiff(f.endIt, f.beginIt)
    IN IF numElems \in {0, 1} THEN [st |-> Return(st), data |-> data]
       ELSE [st |-> WithTop(st, [f EXCEPT !.at = "partition",
                                  !.n = numElems, !.i = -1, !.j = 0]),
             data |-> data]

\* the head of the loop of sort: numElems and the switch on it
SortTop(st, f, data, base) ==
    LET numElems == ItDiff(f.endIt, f.beginIt)
    IN IF numElems \in {0, 1} THEN [st |-> Return(st), data |-> data]
       ELSE IF numElems \in {2, 3, 4}
       THEN [st |-> WithTop(st, [f EXCEPT !.at = "insertionSort",
                                  !.n = numElems, !.i = 0, !.j = 0]),
             data |-> data]
       ELSE [st |-> WithTop(st, [f EXCEPT !.at = "partition",
                                  !.n = numElems, !.i = -1, !.j = 0]),
             data |-> data]

\* insertionSort<N>(beginIt): one test of the inner loop, with its swap, or
\* the move of the outer loop to the next i
InsertionSortStep(st, f, data, base) ==
    IF f.i >= f.n THEN [st |-> Return(st), data |-> data]
    ELSE IF f.j > 0 /\ FirstFieldComparator(data, base,
                          ItPlus(f.beginIt, f.j), ItPlus(f.beginIt, f.j - 1))
    THEN [st |-> [WithTop(st, [f EXCEPT !.j = @ - 1])
                    EXCEPT !.ncmp = @ + 1, !.nswap = @ + 1],
          data |-> swap(data, base, ItPlus(f.beginIt, f.j - 1),
                        ItPlus(f.beginIt, f.j))]
    ELSE [st |-> [WithTop(st, [f EXCEPT !.i = @ + 1, !.j = f.i + 1])
                    EXCEPT !.ncmp = @ + (IF f.j > 0 THEN 1 ELSE 0)],
          data |-> data]

\* the partition loop: one j, or, the loop over, the ++i after it
PartitionStep(st, f, data, base) ==
    LET pivot == ItPlus(f.endIt, -1)
        it    == ItPlus(f.beginIt, f.j)
    IN IF f.j < f.n - 1
       THEN IF FirstFieldComparator(data, base, it, pivot)
            THEN [st |-> [WithTop(st, [f EXCEPT !.i = @ + 1, !.j = @ + 1])
                            EXCEPT !.ncmp = @ + 1,
                                   !.nswap = @ + (IF it = ItPlus(f.beginIt, f.i + 1)
                                                  THEN 0 ELSE 1)],
                  data |-> swap(data, base, it, ItPlus(f.beginIt, f.i + 1))]
            ELSE [st |-> [WithTop(st, [f EXCEPT !.j = @ + 1])
                            EXCEPT !.ncmp = @ + 1],
                  data |-> data]
       ELSE [st |-> WithTop(st, [f EXCEPT !.at = "pivot", !.i = @ + 1]),
             data |-> data]

\* a sort whose pivot is the tuple at endIt
PivotStep_PastEnd(st, f, data, base) ==
    LET pivot == f.endIt
        bi    == ItPlus(f.beginIt, f.i)
    IN IF FirstFieldComparator(data, base, pivot, bi)
       THEN [st |-> [WithTop(st, [f EXCEPT !.at = "recurse"])
                       EXCEPT !.ncmp = @ + 1,
                              !.nswap = @ + (IF pivot = bi THEN 0 ELSE 1)],
             data |-> swap(data, base, pivot, bi)]
       ELSE [st |-> [WithTop(st, [f EXCEPT !.at = "recurse"])
                       EXCEPT !.ncmp = @ + 1],
             data |-> data]

\* a sort that leaves the pivot at the end of the range
PivotStep_NeverSwaps(st, f, data, base) ==
    [st |-> [WithTop(st, [f EXCEPT !.at = "recurse"]) EXCEPT !.ncmp = @ + 1],
     data |-> data]

\* the pivot is moved to its place, beginIt[i]
PivotStep(st, f, data, base) ==
    LET pivot == ItPlus(f.endIt, -1)
        bi    == ItPlus(f.beginIt, f.i)
    IN IF FirstFieldComparator(data, base, pivot, bi)
       THEN [st |-> [WithTop(st, [f EXCEPT !.at = "recurse"])
                       EXCEPT !.ncmp = @ + 1,
                              !.nswap = @ + (IF pivot = bi THEN 0 ELSE 1)],
             data |-> swap(data, base, pivot, bi)]
       ELSE [st |-> [WithTop(st, [f EXCEPT !.at = "recurse"])
                       EXCEPT !.ncmp = @ + 1],
             data |-> data]

\* a sort that makes no recursive call: the loop goes on with the larger
\* partition and the smaller one is left as it is
RecurseStep_LoopOnly(st, f, data, base) ==
    LET pivot == ItPlus(f.beginIt, f.i)
    IN IF ItDiff(pivot, f.beginIt) > ItDiff(f.endIt, ItPlus(pivot, 1))
       THEN [st |-> WithTop(st, [f EXCEPT !.at = "top", !.endIt = pivot]),
             data |-> data]
       ELSE [st |-> WithTop(st, [f EXCEPT !.at = "top", !.beginIt = ItPlus(pivot, 1)]),
             data |-> data]

\* a sort whose loop goes on with a range that keeps the pivot
RecurseStep_KeepsPivot(st, f, data, base) ==
    LET pivot == ItPlus(f.beginIt, f.i)
    IN IF ItDiff(pivot, f.beginIt) > ItDiff(f.endIt, ItPlus(pivot, 1))
       THEN [st |-> [WithTop(st, [f EXCEPT !.at = "top", !.endIt = ItPlus(pivot, 1)])
                       EXCEPT !.stack = Append(@, Frame(ItPlus(pivot, 1), f.endIt))],
             data |-> data]
       ELSE [st |-> [WithTop(st, [f EXCEPT !.at = "top", !.beginIt = pivot])
                       EXCEPT !.stack = Append(@, Frame(f.beginIt, pivot))],
             data |-> data]

\* a sort whose recursive call is for the larger partition
RecurseStep_LargerSide(st, f, data, base) ==
    LET pivot == ItPlus(f.beginIt, f.i)
    IN IF ItDiff(pivot, f.beginIt) > ItDiff(f.endIt, ItPlus(pivot, 1))
       THEN [st |-> [WithTop(st, [f EXCEPT !.at = "top", !.beginIt = ItPlus(pivot, 1)])
                       EXCEPT !.stack = Append(@, Frame(f.beginIt, pivot))],
             data |-> data]
       ELSE [st |-> [WithTop(st, [f EXCEPT !.at = "top", !.endIt = pivot])
                       EXCEPT !.stack = Append(@, Frame(ItPlus(pivot, 1), f.endIt))],
             data |-> data]

\* the recursive call for one partition; the loop goes on with the other
RecurseStep(st, f, data, base) ==
    LET pivot == ItPlus(f.beginIt, f.i)
    IN IF ItDiff(pivot, f.beginIt) > ItDiff(f.endIt, ItPlus(pivot, 1))
       THEN [st |-> [WithTop(st, [f EXCEPT !.at = "top", !.endIt = pivot])
                       EXCEPT !.stack = Append(@, Frame(ItPlus(pivot, 1), f.endIt))],
             data |-> data]
       ELSE [st |-> [WithTop(st, [f EXCEPT !.at = "top", !.beginIt = ItPlus(pivot, 1)])
                       EXCEPT !.stack = Append(@, Frame(f.beginIt, pivot))],
             data |-> data]

\* the tuples the next step of the call f dereferences, as indexes from
\* f.beginIt: beginIt[j] and beginIt[j - 1] in insertionSort; *it, *pivot
\* and, for the swap, beginIt[i] after ++i in the partition loop; *pivot and
\* beginIt[i] when the pivot is moved to its place
SortAccesses(f, data, base) ==
    LET pivot == ItPlus(f.endIt, -1)
    IN CASE f.at = "insertionSort" ->
               IF f.i < f.n /\ f.j > 0 THEN {f.j, f.j - 1} ELSE {}
         [] f.at = "partition" ->
               IF f.j < f.n - 1
               THEN {f.j, ItDiff(pivot, f.beginIt)}
                       \cup (IF FirstFieldComparator(data, base,
                                    ItPlus(f.beginIt, f.j), pivot)
                             THEN {f.i + 1} ELSE {})
               ELSE {}
         [] f.at = "pivot" -> {ItDiff(pivot, f.beginIt), f.i}
         [] OTHER -> {}

\* one step of LTTBlockSorter::sort on the buffer at address base holding data
SortStep(st, data, base) ==
    LET f == st.stack[Len(st.stack)]
    IN CASE f.at = "top"           -> SortTop(st, f, data, base)
         [] f.at = "insertionSort" -> InsertionSortStep(st, f, data, base)
         [] f.at = "partition"     -> PartitionStep(st, f, data, base)
         [] f.at = "pivot"         -> PivotStep(st, f, data, base)
         [] f.at = "recurse"       -> RecurseStep(st, f, data, base)

\* the steps of sort up to its return
RECURSIVE SortToEnd(_, _, _)
SortToEnd(st, data, base) ==
    IF st.pc = "done" THEN [st |-> st, data |-> data]
    ELSE LET r == SortStep(st, data, base) IN SortToEnd(r.st, r.data, base)

\* sorter.sort(block.begin(), block.end()), the whole call
sort(blk) ==
    [blk EXCEPT !.data =
        SortToEnd(StartedSorter(0, blk.data, begin(blk), end(blk)),
                  blk.data, blk.m_storage).data]

----------------------------------------------------------------------------
(* The priority queue of sort runs *)

\* a comparator of runs that is the tuple comparator itself
LttSortRunComparator_NotNegated(v0, v1) == ValueLess(v0, v1)

\* LttSortRunComparator on the current tuples of two runs, given as the
\* values of their column 0: !m_tupleComparator(tuple0, tuple1)
LttSortRunComparator(v0, v1) == ~ValueLess(v0, v1)

\* the i-th element of the vector q, counted from 0
At(q, i) == q[i + 1]

\* the vector q with x as its i-th element
Put(q, i, x) == [q EXCEPT ![i + 1] = x]

\* std::__push_heap: value goes up from the hole while its parent compares
\* before it; key[r] is the column 0 of the current tuple of run r
RECURSIVE push_heap_from(_, _, _, _, _)
push_heap_from(q, holeIndex, topIndex, value, key) ==
    LET parent == TruncDiv(holeIndex - 1, 2)
    IN IF holeIndex > topIndex /\ LttSortRunComparator(key[At(q, parent)], key[value])
       THEN push_heap_from(Put(q, holeIndex, At(q, parent)), parent, topIndex, value, key)
       ELSE Put(q, holeIndex, value)

\* the loop of std::__adjust_heap: the hole goes down to the child that
\* does not compare before the other; the result is the vector and the hole
RECURSIVE adjust_heap_down(_, _, _, _, _)
adjust_heap_down(q, holeIndex, secondChild, len, key) ==
    IF secondChild < TruncDiv(len - 1, 2)
    THEN LET right == 2 * (secondChild + 1)
             child == IF LttSortRunComparator(key[At(q, right)], key[At(q, right - 1)])
                      THEN right - 1 ELSE right
         IN adjust_heap_down(Put(q, holeIndex, At(q, child)), child, child, len, key)
    ELSE [q |-> q, holeIndex |-> holeIndex, secondChild |-> secondChild]

\* an adjust_heap that puts the value into the hole where it is
adjust_heap_NoSift(q, holeIndex, len, value, key) == Put(q, holeIndex, value)

\* std::__adjust_heap(first, holeIndex, len, value)
adjust_heap(q, holeIndex, len, value, key) ==
    LET d == adjust_heap_down(q, holeIndex, holeIndex, len, key)
        e == IF len % 2 = 0 /\ d.secondChild = TruncDiv(len - 2, 2)
             THEN [q |-> Put(d.q, d.holeIndex, At(d.q, 2 * (d.secondChild + 1) - 1)),
                   holeIndex |-> 2 * (d.secondChild + 1) - 1]
             ELSE [q |-> d.q, holeIndex |-> d.holeIndex]
    IN push_heap_from(e.q, e.holeIndex, holeIndex, value, key)

\* queue.push(run): push_back and std::push_heap
queue_push(q, run, key) ==
    push_heap_from(Append(q, run), Len(q), 0, run, key)

\* queue.top()
queue_top(q) == At(q, 0)

\* queue.pop(): std::pop_heap and pop_back
queue_pop(q, key) ==
    IF Len(q) > 1
    THEN SubSeq(adjust_heap(Put(q, Len(q) - 1, At(q, 0)), 0, Len(q) - 1,
                            At(q, Len(q) - 1), key),
                1, Len(q) - 1)
    ELSE <<>>

----------------------------------------------------------------------------
(* The operations on the two blocks, and the cache *)

\* a call: its name, the block it is made on, its integer argument (the
\* non-inlined size of the tuple, the size allocated or copied, the index of
\* the source tuple, the address of the buffer) and what it returned
Op(name, b, arg, ret) == [op |-> name, blk |-> b, arg |-> arg, ret |-> ret]

Init ==
    /\ BLOCK_SIZE_IN_BYTES = SmallBlockSize
    /\ blocks = [b \in BlockIds |-> NewBlock(100 * (b + 1), SmallBlockSize)]
    /\ cacheOrigAddress = [b \in BlockIds |-> NULL]
    /\ aborted = FALSE
    /\ lastOp = Op("new", 0, 0, TRUE)
    /\ sorter = IdleSorter
    /\ merge = IdleMerge
    /\ repack = IdleRepack
    /\ iter = IdleIter

InsertTuple(b, v) ==
    /\ ~aborted
    /\ isResident(blocks[b])
    /\ LET r == insertTuple(blocks[b], v)
       IN /\ blocks' = [blocks EXCEPT ![b] = r.blk]
          /\ lastOp' = Op("insertTuple", b, NonInlinedSize(v), r.ret)
    /\ UNCHANGED <<sorter, merge, repack, iter, BLOCK_SIZE_IN_BYTES, cacheOrigAddress, aborted>>

\* the non-inlined region of blk holds, at the same offsets, what that of
\* src holds
HoldsNonInlinedDataOf(blk, src) ==
    /\ getAllocatedPoolMemory(blk) >= getAllocatedPoolMemory(src)
    /\ \A o \in 0..(BLOCK_SIZE_IN_BYTES - 1) :
          o >= BLOCK_SIZE_IN_BYTES - getAllocatedPoolMemory(src)
             => blk.data[o] = src.data[o]

\* blockOutput.insertTupleRelocateNonInlinedFields(tuple, blockInput.address())
\* for the i-th tuple of the block src, whose non-inlined data the block
\* holds already
InsertTupleRelocate(b, src, i) ==
    /\ ~aborted
    /\ isResident(blocks[b]) /\ isResident(blocks[src])
    /\ i < activeTupleCount(blocks[src])
    /\ HoldsNonInlinedDataOf(blocks[b], blocks[src])
    /\ LET r == insertTupleRelocateNonInlinedFields(blocks[b],
                   TupleAt(blocks[src], TupleAddress(blocks[src], i)),
                   address(blocks[src]))
       IN /\ blocks' = [blocks EXCEPT ![b] = r.blk]
          /\ lastOp' = Op("insertTupleRelocateNonInlinedFields", b, i, r.ret)
    /\ UNCHANGED <<sorter, merge, repack, iter, BLOCK_SIZE_IN_BYTES, cacheOrigAddress, aborted>>

\* a direct call of allocate(n), the block used as a pool by a caller that
\* has checked that it has room
Allocate(b, n) ==
    /\ ~aborted
    /\ isResident(blocks[b])
    /\ n <= FreeGap(blocks[b])
    /\ blocks' = [blocks EXCEPT ![b] = allocate(blocks[b], n).blk]
    /\ lastOp' = Op("allocate", b, n, TRUE)
    /\ UNCHANGED <<sorter, merge, repack, iter, BLOCK_SIZE_IN_BYTES, cacheOrigAddress, aborted>>

\* blockOutput.copyNonInlinedData(blockInput), called on a block whose
\* non-inlined region is empty and that has room for that of blockInput
CopyNonInlinedData(b, src) ==
    /\ ~aborted
    /\ isResident(blocks[b]) /\ isResident(blocks[src])
    /\ getAllocatedPoolMemory(blocks[b]) = 0
    /\ getAllocatedPoolMemory(blocks[src]) <= FreeGap(blocks[b])
    /\ blocks' = [blocks EXCEPT ![b] = copyNonInlinedData(blocks[b], blocks[src])]
    /\ lastOp' = Op("copyNonInlinedData", b, getAllocatedPoolMemory(blocks[src]), TRUE)
    /\ UNCHANGED <<sorter, merge, repack, iter, BLOCK_SIZE_IN_BYTES, cacheOrigAddress, aborted>>

\* The cells between the two insertion points hold undefined values that no
\* operation reads before it writes them; the model keeps them 0, so that two
\* states that differ only there are one state.
Scrub(blk) ==
    [blk EXCEPT !.data =
        [o \in DOMAIN @ |->
            IF /\ blk.m_tupleInsertionPoint - blk.m_storage <= o
               /\ o < blk.m_nonInlinedInsertionPoint - blk.m_storage
            THEN 0 ELSE @[o]]]

ClearForTest(b) ==
    /\ ~aborted
    /\ isResident(blocks[b])
    /\ blocks' = [blocks EXCEPT ![b] = Scrub(clearForTest(blocks[b]))]
    /\ lastOp' = Op("clearForTest", b, 0, TRUE)
    /\ UNCHANGED <<sorter, merge, repack, iter, BLOCK_SIZE_IN_BYTES, cacheOrigAddress, aborted>>

\* the cache stores an unpinned resident block: it takes the buffer with
\* releaseData() and remembers the address the buffer had
CacheEvict(b) ==
    /\ ~aborted
    /\ isResident(blocks[b])
    /\ ~isPinned(blocks[b])
    /\ cacheOrigAddress' = [cacheOrigAddress EXCEPT ![b] = address(blocks[b])]
    /\ blocks' = [blocks EXCEPT ![b] = releaseData(blocks[b])]
    /\ lastOp' = Op("releaseData", b, address(blocks[b]), TRUE)
    /\ UNCHANGED <<sorter, merge, repack, iter, BLOCK_SIZE_IN_BYTES, aborted>>

\* the addresses no resident block's buffer has
FreeBases == Bases \ {address(blocks[b]) : b \in BlockIds}

\* fetchBlock(id): the cache loads the block with setData() if it is not
\* resident, the payload going to a new buffer at address base, and pins it.
\* The call recorded is setData when the block was loaded and pin when it was
\* resident.  A failed assertion ends the process.
CacheFetch(b, base) ==
    /\ ~aborted
    /\ IF isResident(blocks[b]) THEN base = address(blocks[b])
       ELSE base \in FreeBases
    /\ LET loaded == IF isResident(blocks[b]) THEN blocks[b]
                     ELSE setData(blocks[b], cacheOrigAddress[b], base)
           p == pin(loaded)
       IN /\ blocks' = IF p.ok THEN [blocks EXCEPT ![b] = p.blk] ELSE blocks
          /\ aborted' = ~p.ok
          /\ lastOp' = Op(IF isResident(blocks[b]) THEN "pin" ELSE "setData",
                          b, base, p.ok)
    /\ UNCHANGED <<sorter, merge, repack, iter, BLOCK_SIZE_IN_BYTES, cacheOrigAddress>>

\* block->unpin()
Unpin(b) ==
    /\ ~aborted
    /\ LET p == unpin(blocks[b])
       IN /\ blocks' = IF p.ok THEN [blocks EXCEPT ![b] = p.blk] ELSE blocks
          /\ aborted' = ~p.ok
          /\ lastOp' = Op("unpin", b, 0, p.ok)
    /\ UNCHANGED <<sorter, merge, repack, iter, BLOCK_SIZE_IN_BYTES, cacheOrigAddress>>

\* sorter.sort(block.begin(), block.end()) as one step
SortBlock(b) ==
    /\ ~aborted
    /\ isResident(blocks[b])
    /\ blocks' = [blocks EXCEPT ![b] = sort(blocks[b])]
    /\ lastOp' = Op("sort", b, activeTupleCount(blocks[b]), TRUE)
    /\ UNCHANGED <<sorter, merge, repack, iter, BLOCK_SIZE_IN_BYTES, cacheOrigAddress, aborted>>

\* the block filled by insertTuple alone, the source of the other block
InputBlock == 0

\* the block all operations are applied to
OutputBlock == 1

Next ==
    \/ \E b \in BlockIds, v \in Values : InsertTuple(b, v)
    \/ \E i \in 0..(SmallBlockSize - 1) : InsertTupleRelocate(OutputBlock, InputBlock, i)
    \/ \E n \in 1..MaxAlloc : Allocate(OutputBlock, n)
    \/ CopyNonInlinedData(OutputBlock, InputBlock)
    \/ ClearForTest(OutputBlock)
    \/ CacheEvict(OutputBlock)
    \/ \E base \in Bases : CacheFetch(OutputBlock, base)
    \/ Unpin(OutputBlock)
    \/ SortBlock(OutputBlock)

Spec == Init /\ [][Next]_vars

----------------------------------------------------------------------------
(* The sort of one block, step by step (the test sortTuplesCustom) *)

\* the block the test fills and sorts
SortedBlock == 0

SortInit ==
    /\ BLOCK_SIZE_IN_BYTES = SortBlockSize
    /\ blocks = [b \in BlockIds |-> NewBlock(100 * (b + 1), SortBlockSize)]
    /\ cacheOrigAddress = [b \in BlockIds |-> NULL]
    /\ aborted = FALSE
    /\ lastOp = Op("new", 0, 0, TRUE)
    /\ sorter = IdleSorter
    /\ merge = IdleMerge
    /\ repack = IdleRepack
    /\ iter = IdleIter

\* block.insertTuple(tuple) before the sort
SortFill(v) ==
    /\ sorter.pc = "idle"
    /\ InsertTuple(SortedBlock, v)

\* sorter.sort(block.begin(), block.end()) is called
SortBegin ==
    /\ sorter.pc = "idle"
    /\ sorter' = StartedSorter(SortedBlock, blocks[SortedBlock].data,
                               begin(blocks[SortedBlock]), end(blocks[SortedBlock]))
    /\ lastOp' = Op("sort", SortedBlock, activeTupleCount(blocks[SortedBlock]), TRUE)
    /\ UNCHANGED <<merge, repack, iter, BLOCK_SIZE_IN_BYTES, blocks, cacheOrigAddress, aborted>>

\* where the sort in progress is
SortPlace == IF sorter.pc = "sorting" THEN sorter.stack[Len(sorter.stack)].at ELSE "none"

\* the sort takes its next step
SortAdvance ==
    /\ sorter.pc = "sorting"
    /\ LET r == SortStep(sorter, blocks[sorter.blk].data, address(blocks[sorter.blk]))
       IN /\ sorter' = r.st
          /\ blocks' = [blocks EXCEPT ![sorter.blk].data = r.data]
    /\ UNCHANGED <<merge, repack, iter, BLOCK_SIZE_IN_BYTES, cacheOrigAddress, aborted, lastOp>>

\* numElems = endIt - beginIt and the switch on it
SortLoopHead ==
    /\ SortPlace = "top"
    /\ SortAdvance

\* a step of insertionSort<N>
InsertionSort ==
    /\ SortPlace = "insertionSort"
    /\ SortAdvance

\* a step of the partition loop
Partition ==
    /\ SortPlace = "partition"
    /\ SortAdvance

\* the pivot goes to its place
PlacePivot ==
    /\ SortPlace = "pivot"
    /\ SortAdvance

\* the recursive call on the smaller partition
Recurse ==
    /\ SortPlace = "recurse"
    /\ SortAdvance

SortNext ==
    \/ \E v \in Values : SortFill(v)
    \/ SortBegin
    \/ SortLoopHead
    \/ InsertionSort
    \/ Partition
    \/ PlacePivot
    \/ Recurse

SortSpec == SortInit /\ [][SortNext]_vars

\* the test with a sort that, once called, takes its steps: sort is
\* sequential code that waits for nothing
SortLiveSpec == SortInit /\ [][SortNext]_vars /\ WF_vars(SortAdvance)

----------------------------------------------------------------------------
(* The k-way merge of sorted blocks (the test mergeSortedBlocks) *)

\* the values the test inserts into the input table
MergeValues == {NullValue, StringValue(<<1>>), StringValue(<<2>>)}

\* the merge as the test begins: the input table has no block
StartedMerge ==
    [pc |-> "fill", at |-> "insert", ltt |-> <<>>, numOriginalTuples |-> 0,
     blockId |-> 0, runs |-> <<>>, queue |-> <<>>, run |-> 0, output |-> <<>>]

MergeInit ==
    /\ BLOCK_SIZE_IN_BYTES = MergeBlockSize
    /\ blocks = <<>>
    /\ cacheOrigAddress = <<>>
    /\ aborted = FALSE
    /\ lastOp = Op("new", 0, 0, TRUE)
    /\ sorter = IdleSorter
    /\ merge = StartedMerge
    /\ repack = IdleRepack
    /\ iter = IdleIter

\* the block the input table inserts into
LastBlock == merge.ltt[Len(merge.ltt)]

\* the input table has no block, or its last block has no room for v
NeedsNewBlock(v) ==
    \/ merge.ltt = <<>>
    \/ ~insertTuple(blocks[LastBlock], v).ret

\* the blocks bs with those of ids unpinned
UnpinAll(bs, ids) ==
    [b \in DOMAIN bs |-> IF b \in ids THEN unpin(bs[b]).blk ELSE bs[b]]

\* ltt->insertTuple(tupleToInsert): the table inserts into its last block;
\* when it has none, or the block is full, it unpins it and takes a new,
\* pinned block from the cache
MergeInsert(v) ==
    /\ ~aborted
    /\ merge.pc = "fill"
    /\ merge.numOriginalTuples < MaxMergeTuples
    /\ IF NeedsNewBlock(v)
       THEN LET id    == Len(merge.ltt)
                old   == IF merge.ltt = <<>> THEN {} ELSE {LastBlock}
                fresh == pin(NewBlock(100 * (id + 1), MergeBlockSize)).blk
            IN /\ id < NumInputBlocks
               /\ blocks' = UnpinAll(blocks, old) @@ (id :> insertTuple(fresh, v).blk)
               /\ cacheOrigAddress' = cacheOrigAddress @@ (id :> NULL)
               /\ merge' = [merge EXCEPT !.ltt = Append(@, id),
                                         !.numOriginalTuples = @ + 1]
               /\ lastOp' = Op("insertTuple", id, NonInlinedSize(v), TRUE)
       ELSE /\ blocks' = [blocks EXCEPT ![LastBlock] = insertTuple(@, v).blk]
            /\ merge' = [merge EXCEPT !.numOriginalTuples = @ + 1]
            /\ lastOp' = Op("insertTuple", LastBlock, NonInlinedSize(v), TRUE)
            /\ UNCHANGED cacheOrigAddress
    /\ UNCHANGED <<sorter, repack, iter, BLOCK_SIZE_IN_BYTES, aborted>>

\* ltt->insertTuple(tupleToInsert) for a tuple that no block can hold: the
\* table unpins its last block and takes a new, pinned block from the cache,
\* which refuses the tuple and stays without a tuple.  No tuple is inserted
\* after that one: ltt->finishInserts() unpins the new block.
MergeInsertTooLarge ==
    /\ ~aborted
    /\ merge.pc = "fill"
    /\ LET id    == Len(merge.ltt)
           old   == IF merge.ltt = <<>> THEN {} ELSE {LastBlock}
           fresh == NewBlock(100 * (id + 1), MergeBlockSize)
       IN /\ id < NumInputBlocks
          /\ blocks' = UnpinAll(blocks, old) @@ (id :> unpin(pin(fresh).blk).blk)
          /\ cacheOrigAddress' = cacheOrigAddress @@ (id :> NULL)
          /\ merge' = [merge EXCEPT !.ltt = Append(@, id),
                                    !.pc = "phase1", !.at = "fetch"]
          /\ lastOp' = Op("insertTuple", id, MergeBlockSize, FALSE)
    /\ UNCHANGED <<sorter, repack, iter, BLOCK_SIZE_IN_BYTES, aborted>>

\* ltt->finishInserts(): the last block is unpinned
MergeFinishInserts ==
    /\ ~aborted
    /\ merge.pc = "fill"
    /\ blocks' = UnpinAll(blocks, IF merge.ltt = <<>> THEN {} ELSE {LastBlock})
    /\ merge' = [merge EXCEPT !.pc = "phase1", !.at = "fetch"]
    /\ lastOp' = Op("finishInserts", 0, merge.numOriginalTuples, TRUE)
    /\ UNCHANGED <<sorter, repack, iter, BLOCK_SIZE_IN_BYTES, cacheOrigAddress, aborted>>

\* blockId = *it; it = ltt->disownBlock(it);
\* block = lttBlockCache->fetchBlock(blockId)
MergeFetch ==
    /\ ~aborted
    /\ merge.pc = "phase1" /\ merge.at = "fetch"
    /\ merge.ltt # <<>>
    /\ LET b == Head(merge.ltt)
           p == pin(blocks[b])
       IN /\ blocks' = IF p.ok THEN [blocks EXCEPT ![b] = p.blk] ELSE blocks
          /\ aborted' = ~p.ok
          /\ merge' = [merge EXCEPT !.ltt = Tail(@), !.blockId = b, !.at = "sort"]
          /\ lastOp' = Op("pin", b, address(blocks[b]), p.ok)
    /\ UNCHANGED <<sorter, repack, iter, BLOCK_SIZE_IN_BYTES, cacheOrigAddress>>

\* sorter.sort(block->begin(), block->end())
MergeSort ==
    /\ ~aborted
    /\ merge.pc = "phase1" /\ merge.at = "sort"
    /\ blocks' = [blocks EXCEPT ![merge.blockId] = sort(@)]
    /\ merge' = [merge EXCEPT !.at = "unpin"]
    /\ lastOp' = Op("sort", merge.blockId, activeTupleCount(blocks[merge.blockId]), TRUE)
    /\ UNCHANGED <<sorter, repack, iter, BLOCK_SIZE_IN_BYTES, cacheOrigAddress, aborted>>

\* block->unpin()
MergeUnpin ==
    /\ ~aborted
    /\ merge.pc = "phase1" /\ merge.at = "unpin"
    /\ LET p == unpin(blocks[merge.blockId])
       IN /\ blocks' = IF p.ok THEN [blocks EXCEPT ![merge.blockId] = p.blk] ELSE blocks
          /\ aborted' = ~p.ok
          /\ lastOp' = Op("unpin", merge.blockId, 0, p.ok)
    /\ merge' = [merge EXCEPT !.at = "run"]
    /\ UNCHANGED <<sorter, repack, iter, BLOCK_SIZE_IN_BYTES, cacheOrigAddress>>

\* column 0 of the current tuple of every run that has one
RunKeys ==
    [r \in DOMAIN merge.runs |->
        IF merge.runs[r].live
        THEN getNValue0(blocks[r].data, address(blocks[r]),
                        TupleAddress(blocks[r], merge.runs[r].pos))
        ELSE <<"deleted">>]

\* RunKeys once run r is on the tuple pos of its block
RunKeysWith(r, pos) ==
    [RunKeys @@ (r :> <<"null">>) EXCEPT
        ![r] = getNValue0(blocks[r].data, address(blocks[r]), TupleAddress(blocks[r], pos))]

\* table->inheritBlock(blockId); sortRun = new LttSortRun(table);
\* sortRun->init(); queue.push(sortRun).  init() takes the first tuple of
\* the block, which the iterator pins, and asserts that there is one.
MergeNewRun ==
    /\ ~aborted
    /\ merge.pc = "phase1" /\ merge.at = "run"
    /\ LET b == merge.blockId
           success == activeTupleCount(blocks[b]) > 0
           p == pin(blocks[b])
       IN /\ aborted' = ~(success /\ p.ok)
          /\ blocks' = IF success /\ p.ok THEN [blocks EXCEPT ![b] = p.blk] ELSE blocks
          /\ merge' = IF success /\ p.ok
                      THEN [merge EXCEPT
                              !.runs = @ @@ (b :> [pos |-> 0, live |-> TRUE]),
                              !.queue = queue_push(@, b, RunKeysWith(b, 0)),
                              !.at = "fetch"]
                      ELSE merge
          /\ lastOp' = Op("init", b, 0, success /\ p.ok)
    /\ UNCHANGED <<sorter, repack, iter, BLOCK_SIZE_IN_BYTES, cacheOrigAddress>>

\* it == ltt->getBlockIds().end(): the first loop is over
MergePhase1Done ==
    /\ ~aborted
    /\ merge.pc = "phase1" /\ merge.at = "fetch"
    /\ merge.ltt = <<>>
    /\ merge' = [merge EXCEPT !.pc = "phase2", !.at = "pop"]
    /\ lastOp' = Op("merge", 0, Len(merge.queue), TRUE)
    /\ UNCHANGED <<sorter, repack, iter, BLOCK_SIZE_IN_BYTES, blocks, cacheOrigAddress, aborted>>

\* a merge loop that takes the top run and leaves it in the queue
MergePop_TopOnly ==
    /\ ~aborted
    /\ merge.pc = "phase2" /\ merge.at = "pop"
    /\ merge.queue # <<>>
    /\ merge' = [merge EXCEPT !.run = queue_top(merge.queue),
                              !.at = "emit"]
    /\ lastOp' = Op("pop", queue_top(merge.queue), Len(merge.queue), TRUE)
    /\ UNCHANGED <<sorter, repack, iter, BLOCK_SIZE_IN_BYTES, blocks, cacheOrigAddress, aborted>>

\* run = queue.top(); queue.pop()
MergePop ==
    /\ ~aborted
    /\ merge.pc = "phase2" /\ merge.at = "pop"
    /\ merge.queue # <<>>
    /\ merge' = [merge EXCEPT !.run = queue_top(merge.queue),
                              !.queue = queue_pop(@, RunKeys),
                              !.at = "emit"]
    /\ lastOp' = Op("pop", queue_top(merge.queue), Len(merge.queue), TRUE)
    /\ UNCHANGED <<sorter, repack, iter, BLOCK_SIZE_IN_BYTES, blocks, cacheOrigAddress, aborted>>

\* a merge loop that does not insert the tuple into the output table
MergeEmit_NoInsert ==
    /\ ~aborted
    /\ merge.pc = "phase2" /\ merge.at = "emit"
    /\ merge' = [merge EXCEPT !.at = "advance"]
    /\ lastOp' = Op("emit", merge.run, Len(merge.output), TRUE)
    /\ UNCHANGED <<sorter, repack, iter, BLOCK_SIZE_IN_BYTES, blocks, cacheOrigAddress, aborted>>

\* a merge loop that inserts the current tuple twice
MergeEmit_Twice ==
    /\ ~aborted
    /\ merge.pc = "phase2" /\ merge.at = "emit"
    /\ merge' = [merge EXCEPT !.output = Append(Append(@, RunKeys[merge.run]),
                                                RunKeys[merge.run]),
                              !.at = "advance"]
    /\ lastOp' = Op("emit", merge.run, Len(merge.output), TRUE)
    /\ UNCHANGED <<sorter, repack, iter, BLOCK_SIZE_IN_BYTES, blocks, cacheOrigAddress, aborted>>

\* lttOutput->insertTuple(run->currentTuple()): the output table is the
\* sequence of the column 0 of the tuples inserted into it
MergeEmit ==
    /\ ~aborted
    /\ merge.pc = "phase2" /\ merge.at = "emit"
    /\ merge' = [merge EXCEPT !.output = Append(@, RunKeys[merge.run]),
                              !.at = "advance"]
    /\ lastOp' = Op("emit", merge.run, Len(merge.output), TRUE)
    /\ UNCHANGED <<sorter, repack, iter, BLOCK_SIZE_IN_BYTES, blocks, cacheOrigAddress, aborted>>

\* a merge loop that does not delete the run whose advance() returned false
MergeAdvance_KeepsRun ==
    /\ ~aborted
    /\ merge.pc = "phase2" /\ merge.at = "advance"
    /\ LET r == merge.run
           next == merge.runs[r].pos + 1
       IN IF next < activeTupleCount(blocks[r])
          THEN /\ merge' = [merge EXCEPT !.runs[r].pos = next,
                                         !.queue = queue_push(@, r, RunKeysWith(r, next)),
                                         !.at = "pop"]
               /\ lastOp' = Op("advance", r, next, TRUE)
          ELSE /\ merge' = [merge EXCEPT !.at = "pop"]
               /\ lastOp' = Op("advance", r, next, FALSE)
    /\ UNCHANGED <<sorter, repack, iter, BLOCK_SIZE_IN_BYTES, blocks, cacheOrigAddress, aborted>>

\* if (run->advance()) queue.push(run); else delete run.  An iterator that
\* deletes as it goes unpins and deletes the block it has read to the end.
MergeAdvance ==
    /\ ~aborted
    /\ merge.pc = "phase2" /\ merge.at = "advance"
    /\ LET r == merge.run
           next == merge.runs[r].pos + 1
       IN IF next < activeTupleCount(blocks[r])
          THEN /\ merge' = [merge EXCEPT !.runs[r].pos = next,
                                         !.queue = queue_push(@, r, RunKeysWith(r, next)),
                                         !.at = "pop"]
               /\ lastOp' = Op("advance", r, next, TRUE)
               /\ UNCHANGED blocks
          ELSE /\ merge' = [merge EXCEPT !.runs[r].live = FALSE, !.at = "pop"]
               /\ lastOp' = Op("advance", r, next, FALSE)
               /\ blocks' = [b \in DOMAIN blocks \ {r} |-> blocks[b]]
    /\ UNCHANGED <<sorter, repack, iter, BLOCK_SIZE_IN_BYTES, cacheOrigAddress, aborted>>

\* queue.size() == 0: the merge loop is over
MergeDone ==
    /\ ~aborted
    /\ merge.pc = "phase2" /\ merge.at = "pop"
    /\ merge.queue = <<>>
    /\ merge' = [merge EXCEPT !.pc = "done"]
    /\ lastOp' = Op("done", 0, Len(merge.output), TRUE)
    /\ UNCHANGED <<sorter, repack, iter, BLOCK_SIZE_IN_BYTES, blocks, cacheOrigAddress, aborted>>

MergeNext ==
    \/ \E v \in MergeValues : MergeInsert(v)
    \/ MergeInsertTooLarge
    \/ MergeFinishInserts
    \/ MergeFetch
    \/ MergeSort
    \/ MergeUnpin
    \/ MergeNewRun
    \/ MergePhase1Done
    \/ MergePop
    \/ MergeEmit
    \/ MergeAdvance
    \/ MergeDone

MergeSpec == MergeInit /\ [][MergeNext]_vars

----------------------------------------------------------------------------
(* The same test on a smaller table, with a merge loop that takes its steps *)

MergeLoopInit ==
    /\ BLOCK_SIZE_IN_BYTES = LoopBlockSize
    /\ blocks = <<>>
    /\ cacheOrigAddress = <<>>
    /\ aborted = FALSE
    /\ lastOp = Op("new", 0, 0, TRUE)
    /\ sorter = IdleSorter
    /\ merge = StartedMerge
    /\ repack = IdleRepack
    /\ iter = IdleIter

\* ltt->insertTuple(tupleToInsert): the table inserts into its last block;
\* when it has none, or the block is full, it unpins it and takes a new,
\* pinned block from the cache
MergeLoopInsert(v) ==
    /\ ~aborted
    /\ merge.pc = "fill"
    /\ merge.numOriginalTuples < LoopMaxTuples
    /\ IF NeedsNewBlock(v)
       THEN LET id    == Len(merge.ltt)
                old   == IF merge.ltt = <<>> THEN {} ELSE {LastBlock}
                fresh == pin(NewBlock(100 * (id + 1), LoopBlockSize)).blk
            IN /\ id < LoopNumBlocks
               /\ blocks' = UnpinAll(blocks, old) @@ (id :> insertTuple(fresh, v).blk)
               /\ cacheOrigAddress' = cacheOrigAddress @@ (id :> NULL)
               /\ merge' = [merge EXCEPT !.ltt = Append(@, id),
                                         !.numOriginalTuples = @ + 1]
               /\ lastOp' = Op("insertTuple", id, NonInlinedSize(v), TRUE)
       ELSE /\ blocks' = [blocks EXCEPT ![LastBlock] = insertTuple(@, v).blk]
            /\ merge' = [merge EXCEPT !.numOriginalTuples = @ + 1]
            /\ lastOp' = Op("insertTuple", LastBlock, NonInlinedSize(v), TRUE)
            /\ UNCHANGED cacheOrigAddress
    /\ UNCHANGED <<sorter, repack, iter, BLOCK_SIZE_IN_BYTES, aborted>>

MergeLoopNext ==
    \/ \E v \in MergeValues : MergeLoopInsert(v)
    \/ MergeFinishInserts
    \/ MergeFetch
    \/ MergeSort
    \/ MergeUnpin
    \/ MergeNewRun
    \/ MergePhase1Done
    \/ MergePop
    \/ MergeEmit
    \/ MergeAdvance
    \/ MergeDone

\* the merge loop is sequential code on pinned blocks that waits for
\* nothing: each of its steps is taken when it is the next one
MergeLoopSpec ==
    /\ MergeLoopInit /\ [][MergeLoopNext]_vars
    /\ WF_vars(MergePop) /\ WF_vars(MergeEmit)
    /\ WF_vars(MergeAdvance) /\ WF_vars(MergeDone)

----------------------------------------------------------------------------
(* The first phase of the sort (the first loop of the test mergeSortedBlocks)
   with the sort taken step by step and the cache storing and reloading the
   unpinned blocks at any time *)

Phase1Init ==
    /\ BLOCK_SIZE_IN_BYTES = Phase1BlockSize
    /\ blocks = <<>>
    /\ cacheOrigAddress = <<>>
    /\ aborted = FALSE
    /\ lastOp = Op("new", 0, 0, TRUE)
    /\ sorter = IdleSorter
    /\ merge = StartedMerge
    /\ repack = IdleRepack
    /\ iter = IdleIter

\* ltt->insertTuple(tupleToInsert): the table inserts into its last block,
\* which is pinned; when it has none, or the block is full, it unpins it and
\* takes a new, pinned block from the cache
Phase1Insert(v) ==
    /\ ~aborted
    /\ merge.pc = "fill"
    /\ merge.numOriginalTuples < Phase1MaxTuples
    /\ IF NeedsNewBlock(v)
       THEN LET id    == Len(merge.ltt)
                old   == IF merge.ltt = <<>> THEN {} ELSE {LastBlock}
                fresh == pin(NewBlock(100 * (id + 1), Phase1BlockSize)).blk
            IN /\ id < Phase1NumBlocks
               /\ blocks' = UnpinAll(blocks, old) @@ (id :> insertTuple(fresh, v).blk)
               /\ cacheOrigAddress' = cacheOrigAddress @@ (id :> NULL)
               /\ merge' = [merge EXCEPT !.ltt = Append(@, id),
                                         !.numOriginalTuples = @ + 1]
               /\ lastOp' = Op("insertTuple", id, NonInlinedSize(v), TRUE)
       ELSE /\ blocks' = [blocks EXCEPT ![LastBlock] = insertTuple(@, v).blk]
            /\ merge' = [merge EXCEPT !.numOriginalTuples = @ + 1]
            /\ lastOp' = Op("insertTuple", LastBlock, NonInlinedSize(v), TRUE)
            /\ UNCHANGED cacheOrigAddress
    /\ UNCHANGED <<sorter, repack, iter, BLOCK_SIZE_IN_BYTES, aborted>>

\* ltt->finishInserts(): the last block is unpinned
Phase1FinishInserts ==
    /\ merge.pc = "fill"
    /\ MergeFinishInserts

\* the cache stores an unpinned resident block, at any time
Phase1Evict(b) ==
    /\ merge.pc \in {"fill", "phase1"}
    /\ b \in DOMAIN blocks
    /\ CacheEvict(b)

\* the addresses the buffer of block b may have: the one it was created at
\* and one other
Phase1Bases(b) == {100 * (b + 1), 100 * (b + 1) + 50}

\* the block b as fetchBlock(b) finds or loads it: a block that is not
\* resident gets its payload back in a buffer at address base, by setData
Fetched(b, base) ==
    IF isResident(blocks[b]) THEN blocks[b]
    ELSE setData(blocks[b], cacheOrigAddress[b], base)

\* blockId = *it; it = ltt->disownBlock(it);
\* block = lttBlockCache->fetchBlock(blockId)
Phase1Fetch ==
    /\ ~aborted
    /\ merge.pc = "phase1" /\ merge.at = "fetch"
    /\ merge.ltt # <<>>
    /\ \E base \in Phase1Bases(Head(merge.ltt)) :
          LET b == Head(merge.ltt)
              p == pin(Fetched(b, base))
          IN /\ isResident(blocks[b]) => base = address(blocks[b])
             /\ blocks' = IF p.ok THEN [blocks EXCEPT ![b] = p.blk] ELSE blocks
             /\ aborted' = ~p.ok
             /\ merge' = [merge EXCEPT !.ltt = Tail(@), !.blockId = b, !.at = "sort"]
             /\ lastOp' = Op(IF isResident(blocks[b]) THEN "pin" ELSE "setData",
                             b, base, p.ok)
    /\ UNCHANGED <<sorter, repack, iter, BLOCK_SIZE_IN_BYTES, cacheOrigAddress>>

\* sorter.sort(block->begin(), block->end()) is called
Phase1SortBegin ==
    /\ ~aborted
    /\ merge.pc = "phase1" /\ merge.at = "sort"
    /\ sorter' = StartedSorter(merge.blockId, blocks[merge.blockId].data,
                               begin(blocks[merge.blockId]), end(blocks[merge.blockId]))
    /\ merge' = [merge EXCEPT !.at = "sorting"]
    /\ lastOp' = Op("sort", merge.blockId, activeTupleCount(blocks[merge.blockId]), TRUE)
    /\ UNCHANGED <<repack, iter, BLOCK_SIZE_IN_BYTES, blocks, cacheOrigAddress, aborted>>

\* the sort takes its next step
Phase1SortStep ==
    /\ ~aborted
    /\ merge.pc = "phase1" /\ merge.at = "sorting"
    /\ SortAdvance

\* sort returns
Phase1SortEnd ==
    /\ ~aborted
    /\ merge.pc = "phase1" /\ merge.at = "sorting"
    /\ sorter.pc = "done"
    /\ sorter' = IdleSorter
    /\ merge' = [merge EXCEPT !.at = "unpin"]
    /\ UNCHANGED <<repack, iter, BLOCK_SIZE_IN_BYTES, blocks, cacheOrigAddress, aborted,
                   lastOp>>

\* block->unpin()
Phase1Unpin ==
    /\ sorter.pc = "idle"
    /\ MergeUnpin

\* table->inheritBlock(blockId); sortRun = new LttSortRun(table);
\* sortRun->init(): the iterator of the run fetches the block, which pins it
\* and loads it if the cache has stored it, and takes its first tuple
Phase1NewRun ==
    /\ ~aborted
    /\ merge.pc = "phase1" /\ merge.at = "run"
    /\ \E base \in Phase1Bases(merge.blockId) :
          LET b == merge.blockId
              success == activeTupleCount(blocks[b]) > 0
              p == pin(Fetched(b, base))
          IN /\ isResident(blocks[b]) => base = address(blocks[b])
             /\ aborted' = ~(success /\ p.ok)
             /\ blocks' = IF success /\ p.ok THEN [blocks EXCEPT ![b] = p.blk] ELSE blocks
             /\ merge' = IF success /\ p.ok
                         THEN [merge EXCEPT
                                 !.runs = @ @@ (b :> [pos |-> 0, live |-> TRUE]),
                                 !.at = "fetch"]
                         ELSE merge
             /\ lastOp' = Op("init", b, base, success /\ p.ok)
    /\ UNCHANGED <<sorter, repack, iter, BLOCK_SIZE_IN_BYTES, cacheOrigAddress>>

\* it == ltt->getBlockIds().end(): the first loop is over
Phase1Done ==
    /\ sorter.pc = "idle"
    /\ MergePhase1Done

Phase1Next ==
    \/ \E v \in MergeValues : Phase1Insert(v)
    \/ Phase1FinishInserts
    \/ \E b \in 0..(Phase1NumBlocks - 1) : Phase1Evict(b)
    \/ Phase1Fetch
    \/ Phase1SortBegin
    \/ Phase1SortStep
    \/ Phase1SortEnd
    \/ Phase1Unpin
    \/ Phase1NewRun
    \/ Phase1Done

Phase1Spec == Phase1Init /\ [][Phase1Next]_vars

----------------------------------------------------------------------------
(* The iterators of one block (the test iterator) *)

\* the block the test fills and walks
IterBlock == 0

\* the iterators as the test begins: it = block.begin(), itEnd = block.end();
\* inserted holds the tuples insertTuple accepted (stdTuples), visited what
\* the walk has read
StartedIter ==
    [pc |-> "fill", it |-> begin(NewBlock(100, IterBlockSize)),
     itEnd |-> end(NewBlock(100, IterBlockSize)), it2 |-> NULL,
     inserted |-> <<>>, visited |-> <<>>, op |-> "begin"]

IterInit ==
    /\ BLOCK_SIZE_IN_BYTES = IterBlockSize
    /\ blocks = [b \in BlockIds |-> NewBlock(100 * (b + 1), IterBlockSize)]
    /\ cacheOrigAddress = [b \in BlockIds |-> NULL]
    /\ aborted = FALSE
    /\ lastOp = Op("new", 0, 0, TRUE)
    /\ sorter = IdleSorter
    /\ merge = IdleMerge
    /\ repack = IdleRepack
    /\ iter = StartedIter

\* block.insertTuple(tupleToInsert)
IterInsert(v) ==
    /\ iter.pc = "fill"
    /\ LET r == insertTuple(blocks[IterBlock], v)
       IN /\ blocks' = [blocks EXCEPT ![IterBlock] = r.blk]
          /\ lastOp' = Op("insertTuple", IterBlock, NonInlinedSize(v), r.ret)
          /\ iter' = [iter EXCEPT !.inserted = IF r.ret THEN Append(@, v) ELSE @]
    /\ UNCHANGED <<sorter, merge, repack, BLOCK_SIZE_IN_BYTES, cacheOrigAddress, aborted>>

\* it = block.begin(); itEnd = block.end(); i = 0
IterWalkBegin ==
    /\ iter.pc = "fill"
    /\ iter' = [iter EXCEPT !.pc = "walk", !.it = begin(blocks[IterBlock]),
                            !.itEnd = end(blocks[IterBlock]), !.visited = <<>>]
    /\ UNCHANGED <<sorter, merge, repack, BLOCK_SIZE_IN_BYTES, blocks, cacheOrigAddress,
                   aborted, lastOp>>

\* one turn of while (it != itEnd): the tuple is read, then ++it
IterWalkStep ==
    /\ iter.pc = "walk"
    /\ ~ItEq(iter.it, iter.itEnd)
    /\ iter' = [iter EXCEPT
          !.visited = Append(@, getNValue0(blocks[IterBlock].data,
                                           address(blocks[IterBlock]), ItDeref(iter.it))),
          !.it = ItInc(@)]
    /\ UNCHANGED <<sorter, merge, repack, BLOCK_SIZE_IN_BYTES, blocks, cacheOrigAddress,
                   aborted, lastOp>>

\* the walk ends: it == itEnd; then it = block.begin()
IterWalkEnd ==
    /\ iter.pc = "walk"
    /\ ItEq(iter.it, iter.itEnd)
    /\ iter' = [iter EXCEPT !.pc = "ops", !.it = begin(blocks[IterBlock]),
                            !.it2 = begin(blocks[IterBlock]), !.op = "begin"]
    /\ UNCHANGED <<sorter, merge, repack, BLOCK_SIZE_IN_BYTES, blocks, cacheOrigAddress,
                   aborted, lastOp>>

\* the iterator a lies between begin() and end()
InBlock(a) == begin(blocks[IterBlock]) <= a /\ a <= end(blocks[IterBlock])

\* the iterators become it1 and it2 by the operation op, which keeps them in
\* the block
IterOp(op, new1, new2) ==
    /\ InBlock(new1) /\ InBlock(new2)
    /\ iter' = [iter EXCEPT !.it = new1, !.it2 = new2, !.op = op]
    /\ UNCHANGED <<sorter, merge, repack, BLOCK_SIZE_IN_BYTES, blocks, cacheOrigAddress,
                   aborted, lastOp>>

\* it++ and ++it
IterIncrement ==
    /\ iter.pc = "ops"
    /\ IterOp("++", ItInc(iter.it), iter.it2)

\* it-- and --it
IterDecrement ==
    /\ iter.pc = "ops"
    /\ IterOp("--", ItDec(iter.it), iter.it2)

\* it += n
IterAddAssign(n) ==
    /\ iter.pc = "ops"
    /\ IterOp("+=", ItPlus(iter.it, n), iter.it2)

\* it -= n
IterSubAssign(n) ==
    /\ iter.pc = "ops"
    /\ IterOp("-=", ItMinus(iter.it, n), iter.it2)

\* it2 = it + n
IterPlus(n) ==
    /\ iter.pc = "ops"
    /\ IterOp("+", iter.it, ItPlus(iter.it, n))

\* it = it2 - n
IterMinus(n) ==
    /\ iter.pc = "ops"
    /\ IterOp("-", ItMinus(iter.it2, n), iter.it2)

IterNext ==
    \/ \E v \in Values : IterInsert(v)
    \/ IterWalkBegin
    \/ IterWalkStep
    \/ IterWalkEnd
    \/ IterIncrement
    \/ IterDecrement
    \/ \E n \in (-MaxStep)..MaxStep : IterAddAssign(n)
    \/ \E n \in (-MaxStep)..MaxStep : IterSubAssign(n)
    \/ \E n \in (-MaxStep)..MaxStep : IterPlus(n)
    \/ \E n \in (-MaxStep)..MaxStep : IterMinus(n)

IterSpec == IterInit /\ [][IterNext]_vars

----------------------------------------------------------------------------
(* The sort of one block by std::sort and re-insertion into a second block
   (the test sortTuplesStdSort), followed by the in-place sort of the same
   input block *)

\* the sort as the test begins: ttVector holds the addresses of the tuples
\* of the input block, k is the index of the next one to insert
StartedRepack == [pc |-> "fill", ttVector |-> <<>>, k |-> 1]

RepackInit ==
    /\ BLOCK_SIZE_IN_BYTES = RepackBlockSize
    /\ blocks = [b \in BlockIds |-> NewBlock(100 * (b + 1), RepackBlockSize)]
    /\ cacheOrigAddress = [b \in BlockIds |-> NULL]
    /\ aborted = FALSE
    /\ lastOp = Op("new", 0, 0, TRUE)
    /\ sorter = IdleSorter
    /\ merge = IdleMerge
    /\ repack = StartedRepack
    /\ iter = IdleIter

\* blockInput is filled: block->insertTuple(tupleToInsert)
RepackFill(v) ==
    /\ repack.pc = "fill"
    /\ InsertTuple(InputBlock, v)

\* ttVector.push_back(tuple.toTableTuple(schema)) for every tuple of
\* blockInput.  fillBlock stops at the first tuple the block refuses; the
\* last block of a table is sorted with room left.
RepackCollect ==
    /\ repack.pc = "fill"
    /\ repack' = [repack EXCEPT !.pc = "stdsort",
          !.ttVector = [i \in 1..activeTupleCount(blocks[InputBlock]) |->
                           TupleAddress(blocks[InputBlock], i - 1)]]
    /\ UNCHANGED <<sorter, merge, iter, BLOCK_SIZE_IN_BYTES, blocks, cacheOrigAddress,
                   aborted, lastOp>>

\* no tuple of the vector v is less than the one before it
HandlesSorted(v) ==
    \A i \in 1..(Len(v) - 1) :
        ~FirstFieldComparator(blocks[InputBlock].data, address(blocks[InputBlock]),
                              v[i + 1], v[i])

\* std::sort that leaves the vector as it is
RepackStdSort_Unsorted ==
    /\ repack.pc = "stdsort"
    /\ repack' = [repack EXCEPT !.pc = "copy"]
    /\ UNCHANGED <<sorter, merge, iter, BLOCK_SIZE_IN_BYTES, blocks, cacheOrigAddress,
                   aborted, lastOp>>

\* std::sort(ttVector.begin(), ttVector.end(), FirstFieldComparator{}): the
\* vector becomes one of its sorted permutations; which one, when tuples
\* compare equal, the library does not say
RepackStdSort ==
    /\ repack.pc = "stdsort"
    /\ \E p \in Permutations(DOMAIN repack.ttVector) :
          LET v == [i \in DOMAIN repack.ttVector |-> repack.ttVector[p[i]]]
          IN /\ HandlesSorted(v)
             /\ repack' = [repack EXCEPT !.pc = "copy", !.ttVector = v]
    /\ UNCHANGED <<sorter, merge, iter, BLOCK_SIZE_IN_BYTES, blocks, cacheOrigAddress,
                   aborted, lastOp>>

\* blockOutput.copyNonInlinedData(blockInput)
RepackCopy ==
    /\ repack.pc = "copy"
    /\ blocks' = [blocks EXCEPT
          ![OutputBlock] = copyNonInlinedData(blocks[OutputBlock], blocks[InputBlock])]
    /\ lastOp' = Op("copyNonInlinedData", OutputBlock,
                    getAllocatedPoolMemory(blocks[InputBlock]), TRUE)
    /\ repack' = [repack EXCEPT !.pc = "insert", !.k = 1]
    /\ UNCHANGED <<sorter, merge, iter, BLOCK_SIZE_IN_BYTES, cacheOrigAddress, aborted>>

\* success = blockOutput.insertTupleRelocateNonInlinedFields(tuple,
\* blockInput.address()); ASSERT_TRUE(success) ends the test when it fails
RepackInsert ==
    /\ repack.pc = "insert"
    /\ repack.k <= Len(repack.ttVector)
    /\ LET t == repack.ttVector[repack.k]
           r == insertTupleRelocateNonInlinedFields(blocks[OutputBlock],
                   TupleAt(blocks[InputBlock], t), address(blocks[InputBlock]))
       IN /\ blocks' = [blocks EXCEPT ![OutputBlock] = r.blk]
          /\ lastOp' = Op("insertTupleRelocateNonInlinedFields", OutputBlock,
                          ItDiff(t, begin(blocks[InputBlock])), r.ret)
          /\ repack' = IF r.ret THEN [repack EXCEPT !.k = @ + 1]
                       ELSE [repack EXCEPT !.pc = "failed"]
    /\ UNCHANGED <<sorter, merge, iter, BLOCK_SIZE_IN_BYTES, cacheOrigAddress, aborted>>

\* every tuple of ttVector was inserted
RepackLoopEnd ==
    /\ repack.pc = "insert"
    /\ repack.k > Len(repack.ttVector)
    /\ repack' = [repack EXCEPT !.pc = "quicksort"]
    /\ UNCHANGED <<sorter, merge, iter, BLOCK_SIZE_IN_BYTES, blocks, cacheOrigAddress,
                   aborted, lastOp>>

\* the other strategy on the same input block:
\* sorter.sort(block.begin(), block.end())
RepackQuicksort ==
    /\ repack.pc = "quicksort"
    /\ blocks' = [blocks EXCEPT ![InputBlock] = sort(blocks[InputBlock])]
    /\ lastOp' = Op("sort", InputBlock, activeTupleCount(blocks[InputBlock]), TRUE)
    /\ repack' = [repack EXCEPT !.pc = "done"]
    /\ UNCHANGED <<sorter, merge, iter, BLOCK_SIZE_IN_BYTES, cacheOrigAddress, aborted>>

RepackNext ==
    \/ \E v \in Values : RepackFill(v)
    \/ RepackCollect
    \/ RepackStdSort
    \/ RepackCopy
    \/ RepackInsert
    \/ RepackLoopEnd
    \/ RepackQuicksort

RepackSpec == RepackInit /\ [][RepackNext]_vars

----------------------------------------------------------------------------
(* What the claims are stated with *)

\* the step just taken is the call `name` on block b
IsCall(name, b) == lastOp'.op = name /\ lastOp'.blk = b

\* the address the block's pointers are relative to: its buffer's, or, for a
\* block that is not resident, the one its buffer had when it was released
BaseOf(b) == IF isResident(blocks[b]) THEN address(blocks[b]) ELSE cacheOrigAddress[b]

\* the two regions do not overlap and lie in the buffer
PointersOk(b) ==
    /\ BaseOf(b) <= blocks[b].m_tupleInsertionPoint
    /\ blocks[b].m_tupleInsertionPoint <= blocks[b].m_nonInlinedInsertionPoint
    /\ blocks[b].m_nonInlinedInsertionPoint <= BaseOf(b) + BLOCK_SIZE_IN_BYTES

\* the string ref of the i-th tuple of block b
RefOf(b, i) == blocks[b].data[i * (SchemaTupleLength + 1) + 1]

\* the address ref lies in the non-inlined region of block b
InNonInlinedRegion(b, ref) ==
    /\ blocks[b].m_nonInlinedInsertionPoint <= ref
    /\ ref < BaseOf(b) + BLOCK_SIZE_IN_BYTES

\* every string ref of every active tuple of b points into b's own
\* non-inlined region (a null string has no ref)
RefsOk(b) ==
    \A i \in 0..(blocks[b].m_activeTupleCount - 1) :
        RefOf(b, i) # NULL => InNonInlinedRegion(b, RefOf(b, i))

----------------------------------------------------------------------------
(* C1 *)

\* C1: insertTuple returns false if and only if the free gap is smaller than
\* (L+1) + V, L+1 the tuple length with its status byte and V the non-inlined
\* size of the tuple; when it returns false the two insertion points and the
\* tuple count are what they were.
C1_InsertRefusedIffNoRoom ==
    [][\A b \in BlockIds : IsCall("insertTuple", b) =>
          /\ (lastOp'.ret = FALSE) <=>
                (FreeGap(blocks[b]) < (SchemaTupleLength + 1) + lastOp'.arg)
          /\ lastOp'.ret = FALSE =>
                /\ blocks'[b].m_tupleInsertionPoint = blocks[b].m_tupleInsertionPoint
                /\ blocks'[b].m_nonInlinedInsertionPoint
                       = blocks[b].m_nonInlinedInsertionPoint
                /\ blocks'[b].m_activeTupleCount = blocks[b].m_activeTupleCount
      ]_vars

\* a tuple with a string was refused by a block that holds tuples and has room
\* for the inline body alone
C1_Witness ==
    /\ lastOp.op = "insertTuple" /\ lastOp.ret = FALSE /\ lastOp.arg > 0
    /\ blocks[lastOp.blk].m_activeTupleCount > 0
    /\ FreeGap(blocks[lastOp.blk]) >= SchemaTupleLength + 1

----------------------------------------------------------------------------
(* C2 *)

----------------------------------------------------------------------------
(* C3 *)

\* a successful insert (of either kind) adds exactly one to the tuple count
InsertCountsOne ==
    \A b \in BlockIds :
       ((IsCall("insertTuple", b) \/ IsCall("insertTupleRelocateNonInlinedFields", b))
           /\ lastOp'.ret = TRUE)
         => blocks'[b].m_activeTupleCount = blocks[b].m_activeTupleCount + 1

\* C3 as claimed: a successful insert adds exactly one to active_tuple_count,
\* and in every state tuple_insertion_point - storage is
\* active_tuple_count * (L+1).
C3_Original ==
    /\ [](\A b \in BlockIds :
             blocks[b].m_tupleInsertionPoint - blocks[b].m_storage
                = blocks[b].m_activeTupleCount * (SchemaTupleLength + 1))
    /\ [][InsertCountsOne]_vars

\* C3, amended: a successful insert adds exactly one to active_tuple_count,
\* and in every state of a resident block tuple_insertion_point - storage is
\* active_tuple_count * (L+1).
C3_TupleCountMatchesRegion ==
    /\ [](\A b \in BlockIds : isResident(blocks[b]) =>
             blocks[b].m_tupleInsertionPoint - blocks[b].m_storage
                = blocks[b].m_activeTupleCount * (SchemaTupleLength + 1))
    /\ [][InsertCountsOne]_vars

\* a tuple has just been inserted into a block that was cleared and reloaded
\* at another address
C3_Witness ==
    /\ lastOp.op = "insertTuple" /\ lastOp.ret = TRUE /\ lastOp.blk = OutputBlock
    /\ isStored(blocks[OutputBlock])
    /\ address(blocks[OutputBlock]) = 300
    /\ blocks[OutputBlock].m_activeTupleCount = 2

----------------------------------------------------------------------------
(* C4 *)

----------------------------------------------------------------------------
(* C5 *)

\* getNValue(0) of the i-th tuple of a buffer at address base holding data
ReadColumn0(data, base, i) == getNValue0(data, base, base + i * (SchemaTupleLength + 1))

\* the step reloads block b, which was released, at the address lastOp'.arg
IsReload(b) == IsCall("setData", b)

\* the offset o is that of the string ref of an active tuple of block b
IsRefCell(b, o) ==
    /\ o < blocks[b].m_activeTupleCount * (SchemaTupleLength + 1)
    /\ o % (SchemaTupleLength + 1) = 1

\* after the reload of b: the count and the offsets of the two insertion points
\* are what they were, every string ref of an active tuple has moved by
\* new_base - orig_base, and every other cell is what it was
ReloadShiftsRefs(b) ==
    LET d == blocks'[b].m_storage - cacheOrigAddress[b]
    IN /\ blocks'[b].m_storage = lastOp'.arg
       /\ blocks'[b].m_activeTupleCount = blocks[b].m_activeTupleCount
       /\ blocks'[b].m_tupleInsertionPoint - blocks'[b].m_storage
             = blocks[b].m_tupleInsertionPoint - cacheOrigAddress[b]
       /\ blocks'[b].m_nonInlinedInsertionPoint - blocks'[b].m_storage
             = blocks[b].m_nonInlinedInsertionPoint - cacheOrigAddress[b]
       /\ \A o \in 0..(BLOCK_SIZE_IN_BYTES - 1) :
             blocks'[b].data[o] =
                IF IsRefCell(b, o) /\ blocks[b].data[o] # NULL
                THEN blocks[b].data[o] + d
                ELSE blocks[b].data[o]

\* after the reload of b every tuple reads the column value it read before
ReloadKeepsColumns(b) ==
    \A i \in 0..(blocks[b].m_activeTupleCount - 1) :
        ReadColumn0(blocks'[b].data, blocks'[b].m_storage, i)
           = ReadColumn0(blocks[b].data, cacheOrigAddress[b], i)

\* C5: releaseData followed by setData(orig_base, buf) at another address
\* gives a block that equals the original except that every string ref of
\* every active tuple has moved by new_base - orig_base; the count and the
\* offsets of the insertion points are kept, and every column read of every
\* tuple returns what it returned before the release.
C5_ReloadRoundTrip ==
    [][\A b \in BlockIds : IsReload(b) =>
            ReloadShiftsRefs(b) /\ ReloadKeepsColumns(b)]_vars

\* a full block of two tuples, one with a string of one character and one
\* with a null string, has been reloaded at another address than the one it
\* was released at
C5_Witness ==
    /\ lastOp.op = "setData" /\ lastOp.blk = OutputBlock
    /\ lastOp.arg # cacheOrigAddress[OutputBlock]
    /\ address(blocks[OutputBlock]) = lastOp.arg
    /\ blocks[OutputBlock].m_activeTupleCount = 2
    /\ FreeGap(blocks[OutputBlock]) = 0
    /\ RefOf(OutputBlock, 0) # NULL /\ RefOf(OutputBlock, 1) = NULL
    /\ ReadColumn0(blocks[OutputBlock].data, address(blocks[OutputBlock]), 0)
          \in {<<"string", <<c>>>> : c \in Chars}

----------------------------------------------------------------------------
(* C6 *)

\* C6: a pinned block is never evicted: in every state a pinned block is
\* resident, and releaseData is only performed on a block that is not pinned.
C6_PinnedIsResident ==
    /\ [](\A b \in BlockIds : blocks[b].m_isPinned => blocks[b].m_storage # NULL)
    /\ [][\A b \in BlockIds : IsCall("releaseData", b) => ~blocks[b].m_isPinned]_vars

\* a block that was evicted before is pinned, resident and holds tuples
C6_Witness ==
    /\ blocks[OutputBlock].m_isPinned /\ blocks[OutputBlock].m_isStored
    /\ blocks[OutputBlock].m_storage = 300
    /\ blocks[OutputBlock].m_activeTupleCount > 0
    /\ lastOp.op = "insertTuple" /\ lastOp.blk = OutputBlock

----------------------------------------------------------------------------
(* C7 *)

\* the step pins block b: fetchBlock, whether or not it loads the block
IsPin(b) == IsCall("pin", b) \/ IsCall("setData", b)

\* C7: pin() on a pinned block and unpin() on a block that is not pinned fail
\* an assertion; otherwise pin sets the flag and unpin clears it, and no other
\* call changes it: so, as long as no assertion fails, the pins and unpins of
\* one block alternate, an unpin between any two pins.
C7_PinUnpinAlternate ==
    [][/\ \A b \in BlockIds :
            /\ IsPin(b) =>
                  /\ aborted' = blocks[b].m_isPinned
                  /\ ~aborted' => blocks'[b].m_isPinned
            /\ IsCall("unpin", b) =>
                  /\ aborted' = ~blocks[b].m_isPinned
                  /\ ~aborted' => ~blocks'[b].m_isPinned
            /\ (~IsPin(b) /\ ~IsCall("unpin", b)) =>
                  blocks'[b].m_isPinned = blocks[b].m_isPinned
       /\ (\A b \in BlockIds : ~IsPin(b) /\ ~IsCall("unpin", b)) => ~aborted'
      ]_vars

\* the second of two pins with no unpin between them has failed its assertion
C7_Witness ==
    /\ aborted /\ lastOp.op = "pin" /\ lastOp.ret = FALSE
    /\ blocks[lastOp.blk].m_isPinned


----------------------------------------------------------------------------
(* C8 *)

\* the number of tuples of the block that is sorted
SortCount == activeTupleCount(blocks[SortedBlock])

\* cmp(block[i], block[j]) on the block that is sorted
SortedCmp(i, j) ==
    FirstFieldComparator(blocks[SortedBlock].data, address(blocks[SortedBlock]),
                         TupleAddress(blocks[SortedBlock], i),
                         TupleAddress(blocks[SortedBlock], j))

\* cmp(block[i], block[j]) on the block as it was when sort was called
InputCmp(i, j) ==
    FirstFieldComparator(sorter.input, address(blocks[SortedBlock]),
                         TupleAddress(blocks[SortedBlock], i),
                         TupleAddress(blocks[SortedBlock], j))

\* C8: once sort(begin(), end()) has returned, no tuple of the block is
\* less than the tuple before it: !cmp(block[i+1], block[i]) for every i,
\* whatever the number of tuples and with equal keys among them.
C8_SortedAfterSort ==
    sorter.pc = "done" =>
        \A i \in 0..(SortCount - 2) : ~SortedCmp(i + 1, i)

\* a sort that has returned, of five tuples or more that were out of order
\* and had two equal keys next to a different one
C8_Witness ==
    /\ sorter.pc = "done"
    /\ SortCount >= 5
    /\ sorter.nswap > 0
    /\ \E i \in 0..(SortCount - 2) : InputCmp(i + 1, i)
    /\ \E i, j \in 0..(SortCount - 1) :
          i # j /\ ~InputCmp(i, j) /\ ~InputCmp(j, i)
    /\ \E i, j \in 0..(SortCount - 1) : SortedCmp(i, j)

----------------------------------------------------------------------------
(* C9 *)

\* the cells of the i-th tuple of a buffer holding data
TupleCellsOf(data, i) == [k \in 1..m_tupleLength |-> data[i * m_tupleLength + k - 1]]

\* how many of the first n tuples of a buffer holding data have the cells c
Occurrences(data, n, c) == Cardinality({i \in 0..(n - 1) : TupleCellsOf(data, i) = c})

\* C9: while sort runs and when it has returned the block holds the tuples
\* it held when sort was called, each as many times as then and no other,
\* and the number of tuples is what it was.
C9_SortPermutes ==
    sorter.pc \in {"sorting", "done"} =>
        /\ SortCount = lastOp.arg
        /\ \A i \in 0..(SortCount - 1) :
              /\ Occurrences(blocks[SortedBlock].data, SortCount,
                             TupleCellsOf(sorter.input, i))
                   = Occurrences(sorter.input, SortCount, TupleCellsOf(sorter.input, i))
              /\ Occurrences(sorter.input, SortCount,
                             TupleCellsOf(blocks[SortedBlock].data, i)) > 0

\* a sort that has returned and has moved tuples of a block of five tuples
\* or more, two of them the same cell by cell
C9_Witness ==
    /\ sorter.pc = "done"
    /\ SortCount >= 5
    /\ sorter.nswap > 1
    /\ blocks[SortedBlock].data # sorter.input
    /\ \E i \in 0..(SortCount - 1) :
          Occurrences(sorter.input, SortCount, TupleCellsOf(sorter.input, i)) > 1

----------------------------------------------------------------------------
(* C10 *)

\* C10: at every moment of the merge, of two tuples appended to the output
\* table one after the other, a then b, b is not less than a: !cmp(b, a).
C10_MergeOutputOrdered ==
    merge.pc # "idle" =>
        \A i \in 1..(Len(merge.output) - 1) :
            ~ValueLess(merge.output[i + 1], merge.output[i])

\* a merge of as many runs as the table may have blocks that has come to its
\* end with every tuple in the output, equal ones and different ones
C10_Witness ==
    /\ merge.pc = "done"
    /\ Cardinality(DOMAIN merge.runs) = NumInputBlocks
    /\ Len(merge.output) = merge.numOriginalTuples
    /\ Len(merge.output) >= 5
    /\ \E i \in 1..(Len(merge.output) - 1) : ValueLess(merge.output[i], merge.output[i + 1])
    /\ \E i \in 1..(Len(merge.output) - 1) : merge.output[i] = merge.output[i + 1]

----------------------------------------------------------------------------
(* C11 *)

\* C11: when the merge has finished, the output table holds as many tuples
\* as were inserted into the input table.
C11_MergeKeepsCount ==
    merge.pc = "done" => Len(merge.output) = merge.numOriginalTuples

\* a merge of as many runs as the table may have blocks, runs of one tuple
\* and runs of more among them, has finished
C11_Witness ==
    /\ merge.pc = "done"
    /\ Cardinality(DOMAIN merge.runs) = NumInputBlocks
    /\ merge.numOriginalTuples > NumInputBlocks
    /\ Len(merge.output) > NumInputBlocks
    /\ \A r \in DOMAIN merge.runs : ~merge.runs[r].live

----------------------------------------------------------------------------
(* C12 *)

\* C12: of two tuples of the merged output table that follow each other,
\* the first is less than the second on column 0: cmp(prev, next).
C12_MergeOutputStrict ==
    merge.pc = "done" =>
        \A i \in 1..(Len(merge.output) - 1) :
            ValueLess(merge.output[i], merge.output[i + 1])

----------------------------------------------------------------------------
(* C13 *)

\* what the columns of the i-th tuple of block b read as: the status byte,
\* the value of column 0 and the bytes of the other columns
ColumnReads(b, i) ==
    LET t == TupleAddress(blocks[b], i)
    IN <<ReadCell(blocks[b].data, address(blocks[b]), t),
         getNValue0(blocks[b].data, address(blocks[b]), t),
         [k \in 2..SchemaTupleLength |->
             ReadCell(blocks[b].data, address(blocks[b]), t + k)]>>

\* the offset in its block's buffer of the string of the i-th tuple of b
RefOffsetOf(b, i) == RefOf(b, i) - address(blocks[b])

----------------------------------------------------------------------------
(* C14 *)

\* C14: in every state of a resident block end() - begin() is
\* active_tuple_count; begin() is end() on a block that was just constructed
\* and on one that was just cleared.
C14_EndMinusBeginIsCount ==
    /\ \A b \in BlockIds : begin(blocks[b]) = end(blocks[b])
    /\ [](\A b \in BlockIds : isResident(blocks[b]) =>
             ItDiff(end(blocks[b]), begin(blocks[b])) = activeTupleCount(blocks[b]))
    /\ [][\A b \in BlockIds : IsCall("clearForTest", b) =>
             begin(blocks'[b]) = end(blocks'[b])]_vars

\* a block that was cleared, refilled with two tuples, stored and reloaded at
\* another address
C14_Witness ==
    /\ lastOp.op = "setData" /\ lastOp.blk = OutputBlock
    /\ isResident(blocks[OutputBlock])
    /\ address(blocks[OutputBlock]) = 300
    /\ activeTupleCount(blocks[OutputBlock]) = 2
    /\ ItDiff(end(blocks[OutputBlock]), begin(blocks[OutputBlock])) = 2

----------------------------------------------------------------------------
(* C17 *)

\* the offset in its buffer of the tuple the step's relocating insert reads:
\* the tuple of the input block whose index the call was given
SourceOffset == lastOp'.arg * (SchemaTupleLength + 1)

\* C17: a successful insertTupleRelocateNonInlinedFields(T, orig_base) appends
\* the inline body of T and nothing else: the string ref r of T is stored as
\* this_base + (r - orig_base) and the other cells of T as they are, the tuple
\* count grows by 1, the tuple insertion point by L+1, and the non-inlined
\* insertion point, the bytes of the non-inlined region and the tuples the
\* block held are what they were.
C17_RelocatingInsertAppendsInlineBody ==
    [][(IsCall("insertTupleRelocateNonInlinedFields", OutputBlock) /\ lastOp'.ret = TRUE) =>
          LET old  == blocks[OutputBlock]
              new  == blocks'[OutputBlock]
              src  == blocks[InputBlock]
              at   == old.m_tupleInsertionPoint - old.m_storage
              r    == src.data[SourceOffset + 1]
          IN /\ new.m_activeTupleCount = old.m_activeTupleCount + 1
             /\ new.m_tupleInsertionPoint
                   = old.m_tupleInsertionPoint + (SchemaTupleLength + 1)
             /\ new.m_nonInlinedInsertionPoint = old.m_nonInlinedInsertionPoint
             /\ new.m_storage = old.m_storage
             /\ new.data[at] = src.data[SourceOffset]
             /\ r # NULL => new.data[at + 1] = old.m_storage + (r - src.m_storage)
             /\ r = NULL => new.data[at + 1] = NULL
             /\ \A k \in 2..SchemaTupleLength :
                   new.data[at + k] = src.data[SourceOffset + k]
             /\ \A o \in 0..(BLOCK_SIZE_IN_BYTES - 1) :
                   (o < at \/ o >= old.m_nonInlinedInsertionPoint - old.m_storage)
                      => new.data[o] = old.data[o]
      ]_vars

\* the second tuple of the input block, which has a string, was appended as
\* the first tuple of an output block that was reloaded at another address; the
\* ref stored leads to the string's characters in the output block
C17_Witness ==
    /\ lastOp.op = "insertTupleRelocateNonInlinedFields" /\ lastOp.ret = TRUE
    /\ lastOp.arg = 1
    /\ address(blocks[OutputBlock]) = 300
    /\ activeTupleCount(blocks[OutputBlock]) = 1
    /\ RefOf(InputBlock, 1) # NULL
    /\ RefOf(OutputBlock, 0) = 300 + (RefOf(InputBlock, 1) - address(blocks[InputBlock]))
    /\ getNValue0(blocks[OutputBlock].data, 300, 300)
          = getNValue0(blocks[InputBlock].data, address(blocks[InputBlock]),
                       TupleAddress(blocks[InputBlock], 1))

----------------------------------------------------------------------------
(* C18 *)

\* C18: insertTupleRelocateNonInlinedFields returns false if and only if the
\* gap between the tuple insertion point and the non-inlined insertion point
\* is smaller than L+1; when it returns false the block is what it was.
C18_RelocatingInsertRefusedIffFull ==
    [][IsCall("insertTupleRelocateNonInlinedFields", OutputBlock) =>
          /\ (lastOp'.ret = FALSE) <=>
                (blocks[OutputBlock].m_nonInlinedInsertionPoint
                    - blocks[OutputBlock].m_tupleInsertionPoint < SchemaTupleLength + 1)
          /\ lastOp'.ret = FALSE => blocks'[OutputBlock] = blocks[OutputBlock]
      ]_vars

\* a block that holds tuples and the copy of the input block's strings has
\* refused a tuple
C18_Witness ==
    /\ lastOp.op = "insertTupleRelocateNonInlinedFields" /\ lastOp.ret = FALSE
    /\ activeTupleCount(blocks[OutputBlock]) > 0
    /\ getAllocatedPoolMemory(blocks[OutputBlock]) > 0
    /\ FreeGap(blocks[OutputBlock]) < SchemaTupleLength + 1

----------------------------------------------------------------------------
(* C19 *)

----------------------------------------------------------------------------
(* C15 *)

\* the iterators of the test and those of the two ends of its block
TestIterators ==
    {iter.it, iter.it2, begin(blocks[IterBlock]), end(blocks[IterBlock])}

\* the iterator a is on a tuple of the block, not past the last one
OnTuple(a) == begin(blocks[IterBlock]) <= a /\ a < end(blocks[IterBlock])

\* C15: for the iterators it, a, b that the test moves over the tuple
\* boundaries of its block by ++, --, +=, -=, + and -, and every n,
\* (it + n) - n == it; it[n] is the tuple *(it + n); and a < b exactly when
\* (b - a) > 0.
C15_IteratorLaws ==
    iter.pc = "ops" =>
       /\ \A it \in TestIterators : \A n \in (-MaxStep)..MaxStep :
             /\ ItEq(ItMinus(ItPlus(it, n), n), it)
             /\ ItIndex(it, n) = ItDeref(ItPlus(it, n))
             /\ OnTuple(ItPlus(it, n)) =>
                   TupleAt(blocks[IterBlock], ItIndex(it, n))
                      = TupleAt(blocks[IterBlock], ItDeref(ItPlus(it, n)))
       /\ \A a \in TestIterators : \A b \in TestIterators :
             ItLess(a, b) <=> (ItDiff(b, a) > 0)

\* it2 = it + 2 was followed by it = it2 - 1 in a block of three tuples or
\* more: it is on the second tuple and it2 on the third
C15_Witness ==
    /\ iter.pc = "ops" /\ iter.op = "-"
    /\ activeTupleCount(blocks[IterBlock]) >= 3
    /\ ItDiff(iter.it, begin(blocks[IterBlock])) = 1
    /\ ItDiff(iter.it2, begin(blocks[IterBlock])) = 2
    /\ ItLess(iter.it, iter.it2)
    /\ ItDiff(iter.it, iter.it2) = -1

----------------------------------------------------------------------------
(* C16 *)

\* what getNValue(0) returns for a tuple inserted with the value v
NValueOf(v) == IF v.isNull THEN <<"null">> ELSE <<"string", v.str>>

\* C16: the walk of a block from begin() to end() by ++ visits exactly
\* active_tuple_count tuples, and the i-th tuple it visits is the i-th tuple
\* that insertTuple accepted; no sort is applied to the block.
C16_WalkIsInsertionOrder ==
    /\ iter.pc \in {"walk", "ops"} =>
          /\ Len(iter.visited) <= Len(iter.inserted)
          /\ \A i \in 1..Len(iter.visited) :
                iter.visited[i] = NValueOf(iter.inserted[i])
    /\ iter.pc = "ops" =>
          /\ Len(iter.visited) = activeTupleCount(blocks[IterBlock])
          /\ Len(iter.visited) = Len(iter.inserted)

\* the walk is over in a block that holds a null, a string and another string
\* in that order, after a tuple was refused
C16_Witness ==
    /\ iter.pc = "ops" /\ iter.op = "begin"
    /\ lastOp.op = "insertTuple" /\ lastOp.ret = FALSE
    /\ Len(iter.visited) = 3
    /\ iter.visited[1] = <<"null">>
    /\ iter.visited[2][1] = "string" /\ iter.visited[3][1] = "string"
    /\ iter.visited[2] # iter.visited[3]

----------------------------------------------------------------------------
(* C20 *)

\* C20: the sort by std::sort and re-insertion never runs out of room: the
\* output block being empty, after copyNonInlinedData(input) each of the
\* input block's tuples is inserted by
\* insertTupleRelocateNonInlinedFields(tuple, input.address()), every call
\* returns true, and the output block ends with the tuple count of the input.
C20_RepackNeverRunsOut ==
    /\ [](repack.pc # "failed")
    /\ [](repack.pc \in {"quicksort", "done"} =>
             activeTupleCount(blocks[OutputBlock]) = activeTupleCount(blocks[InputBlock]))
    /\ [][(repack.pc = "insert" /\ IsCall("insertTupleRelocateNonInlinedFields", OutputBlock))
             => lastOp'.ret = TRUE]_vars

\* the tuples of an input block with no room left, strings among them, are
\* all in the output block, which has no room left either
C20_Witness ==
    /\ repack.pc = "quicksort"
    /\ FreeGap(blocks[InputBlock]) = 0
    /\ getAllocatedPoolMemory(blocks[InputBlock]) > 0
    /\ activeTupleCount(blocks[OutputBlock]) >= 3
    /\ activeTupleCount(blocks[OutputBlock]) = activeTupleCount(blocks[InputBlock])
    /\ FreeGap(blocks[OutputBlock]) = 0

----------------------------------------------------------------------------
(* C21 *)

\* C21: after releaseData the block is marked stored and is not resident
\* (getAllocatedMemory() is 0), and it stays so until a later setData; a
\* resident block reports getAllocatedMemory() == BLOCK_SIZE_IN_BYTES; the
\* stored flag, once true, never becomes false again.
C21_StoredAndResidency ==
    /\ [](\A b \in BlockIds :
             /\ isResident(blocks[b]) => getAllocatedMemory(blocks[b]) = BLOCK_SIZE_IN_BYTES
             /\ ~isResident(blocks[b]) =>
                   (isStored(blocks[b]) /\ getAllocatedMemory(blocks[b]) = 0))
    /\ [][\A b \in BlockIds :
             /\ IsCall("releaseData", b) =>
                   /\ isStored(blocks'[b])
                   /\ ~isResident(blocks'[b])
                   /\ getAllocatedMemory(blocks'[b]) = 0
             /\ (~isResident(blocks[b]) /\ isResident(blocks'[b])) =>
                   IsCall("setData", b)
             /\ isStored(blocks[b]) => isStored(blocks'[b])
      ]_vars

\* a block that holds tuples was released, reloaded at another address and
\* released again
C21_Witness ==
    /\ lastOp.op = "releaseData" /\ lastOp.blk = OutputBlock
    /\ lastOp.arg = 300
    /\ isStored(blocks[OutputBlock]) /\ ~isResident(blocks[OutputBlock])
    /\ getAllocatedMemory(blocks[OutputBlock]) = 0
    /\ activeTupleCount(blocks[OutputBlock]) > 0

----------------------------------------------------------------------------
(* C22 *)

\* the block the first loop of the sort is working on is in use: it was
\* fetched and not yet unpinned
Phase1InUse ==
    merge.pc = "phase1" /\ merge.at \in {"sort", "sorting", "unpin"}

\* the blocks the input table owns
OwnedBlocks == {merge.ltt[i] : i \in 1..Len(merge.ltt)}

\* C22: in the first phase of the sort each input block is disowned from the
\* input table, fetched pinned and resident, sorted in place while it stays
\* pinned and resident, and unpinned exactly once afterwards, before it is
\* handed to its sort run; no block is sorted while unpinned.
C22_Phase1PinDiscipline ==
    /\ [](~aborted)
    /\ [](Phase1InUse =>
             /\ merge.blockId \notin OwnedBlocks
             /\ isResident(blocks[merge.blockId])
             /\ isPinned(blocks[merge.blockId]))
    /\ [](sorter.pc = "sorting" =>
             /\ Phase1InUse /\ sorter.blk = merge.blockId
             /\ isResident(blocks[sorter.blk])
             /\ isPinned(blocks[sorter.blk]))
    /\ [][\A b \in DOMAIN blocks :
             /\ IsCall("sort", b) => (isPinned(blocks[b]) /\ isResident(blocks[b]))
             /\ IsCall("unpin", b) =>
                   /\ merge.at = "unpin" /\ b = merge.blockId
                   /\ lastOp'.ret = TRUE
                   /\ ~isPinned(blocks'[b])
             /\ IsCall("init", b) =>
                   /\ merge.at = "run" /\ b = merge.blockId
                   /\ ~isPinned(blocks[b])
      ]_vars

\* the second block of the table, which the cache had stored, was loaded at
\* another address, sorted with a swap and unpinned, and is handed to its run
C22_Witness ==
    /\ merge.pc = "phase1" /\ merge.at = "run"
    /\ merge.blockId = 1
    /\ lastOp.op = "unpin" /\ lastOp.ret = TRUE
    /\ isStored(blocks[1]) /\ address(blocks[1]) = 250
    /\ ~isPinned(blocks[1])
    /\ activeTupleCount(blocks[1]) >= 2
    /\ 0 \in DOMAIN merge.runs

----------------------------------------------------------------------------
(* C23 *)

----------------------------------------------------------------------------
(* C24 *)

\* the tuples of the range of the call f of sort
RangeSize(f) == (f.endIt - f.beginIt) \div (SchemaTupleLength + 1)

\* C24: the in-place sort of a range of 0 or 1 tuples makes no comparison and
\* no swap; of 2 tuples, exactly one comparison; a range of 3 or 4 tuples is
\* handled by the specialised insertion sort alone, with no partition step
\* and no recursive call.
C24_SmallRanges ==
    LET n == activeTupleCount(blocks[SortedBlock])
    IN /\ (sorter.pc = "done" /\ n \in {0, 1}) =>
             (sorter.ncmp = 0 /\ sorter.nswap = 0)
       /\ (sorter.pc = "done" /\ n = 2) => sorter.ncmp = 1
       /\ (sorter.pc = "sorting" /\ n <= 4) =>
             /\ Len(sorter.stack) = 1
             /\ sorter.stack[1].at \in {"top", "insertionSort"}
             /\ n \in {0, 1} => (sorter.ncmp = 0 /\ sorter.nswap = 0)
       /\ sorter.pc = "sorting" =>
             \A k \in 1..Len(sorter.stack) :
                /\ sorter.stack[k].at = "insertionSort" =>
                      RangeSize(sorter.stack[k]) \in {2, 3, 4}
                /\ sorter.stack[k].at \in {"partition", "pivot", "recurse"} =>
                      RangeSize(sorter.stack[k]) > 4

\* the sort of a block of four tuples has returned after three swaps or
\* more and more comparisons than swaps
C24_Witness ==
    /\ sorter.pc = "done"
    /\ activeTupleCount(blocks[SortedBlock]) = 4
    /\ sorter.nswap >= 3
    /\ sorter.ncmp > sorter.nswap

----------------------------------------------------------------------------
(* C25 *)

\* C25: from an empty block on, insertTuple of tuples with no non-inlined
\* byte succeeds exactly floor(BLOCK_SIZE / (L+1)) times and fails the next
\* time: the call on a block that holds only such tuples succeeds if and
\* only if the block holds fewer than floor(BLOCK_SIZE / (L+1)) of them.
C25_InlineTuplesPerBlock ==
    /\ [](\A b \in BlockIds :
             (isResident(blocks[b])
                 /\ blocks[b].m_nonInlinedInsertionPoint
                       = blocks[b].m_storage + BLOCK_SIZE_IN_BYTES)
               => blocks[b].m_activeTupleCount
                     <= BLOCK_SIZE_IN_BYTES \div (SchemaTupleLength + 1))
    /\ [][\A b \in BlockIds :
             (IsCall("insertTuple", b) /\ lastOp'.arg = 0
                 /\ blocks[b].m_nonInlinedInsertionPoint
                       = blocks[b].m_storage + BLOCK_SIZE_IN_BYTES)
               => ((lastOp'.ret = TRUE) <=>
                      (blocks[b].m_activeTupleCount
                          < BLOCK_SIZE_IN_BYTES \div (SchemaTupleLength + 1)))
      ]_vars

\* the input block, which was empty, has accepted floor(BLOCK_SIZE / (L+1))
\* tuples without non-inlined bytes and refused the next one
C25_Witness ==
    /\ lastOp.op = "insertTuple" /\ lastOp.blk = InputBlock
    /\ lastOp.arg = 0 /\ lastOp.ret = FALSE
    /\ getAllocatedPoolMemory(blocks[InputBlock]) = 0
    /\ activeTupleCount(blocks[InputBlock])
          = BLOCK_SIZE_IN_BYTES \div (SchemaTupleLength + 1)

----------------------------------------------------------------------------
(* C26 *)

\* the runs in the vector q
RunsIn(q) == {q[i] : i \in DOMAIN q}

\* C26: at every pop of the merge the run taken from the queue is a minimum:
\* no run left in the queue has a current tuple that is less than the
\* current tuple of the run taken; the pop takes one run and leaves the
\* others in the queue.
C26_PopTakesMinimum ==
    [][IsCall("pop", lastOp'.blk) =>
          /\ merge'.run \in RunsIn(merge.queue)
          /\ RunsIn(merge'.queue) = RunsIn(merge.queue) \ {merge'.run}
          /\ Len(merge'.queue) = Len(merge.queue) - 1
          /\ \A r \in RunsIn(merge'.queue) :
                ~ValueLess(RunKeys[r], RunKeys[merge'.run])
      ]_vars

\* a run has been taken from a queue of as many runs as the table may have
\* blocks; a run left in the queue has an equal current tuple, for which the
\* comparator of runs returns true, and another has a greater one
C26_Witness ==
    /\ lastOp.op = "pop"
    /\ merge.pc = "phase2" /\ merge.at = "emit"
    /\ Len(merge.queue) = NumInputBlocks - 1
    /\ \E r \in RunsIn(merge.queue) :
          /\ RunKeys[r] = RunKeys[merge.run]
          /\ LttSortRunComparator(RunKeys[r], RunKeys[merge.run])
          /\ LttSortRunComparator(RunKeys[merge.run], RunKeys[r])
    /\ \E r \in RunsIn(merge.queue) : ValueLess(RunKeys[merge.run], RunKeys[r])
    /\ Len(merge.output) >= 1

----------------------------------------------------------------------------
(* C27 *)

\* the blocks an operation of the core is under way on: the block the input
\* table inserts into, the block that was fetched to be sorted and is not
\* yet unpinned, and the blocks the iterators of the sort runs are on
BlocksInUse ==
    (IF merge.pc = "fill" /\ merge.ltt # <<>> THEN {LastBlock} ELSE {})
       \cup (IF Phase1InUse THEN {merge.blockId} ELSE {})
       \cup {r \in DOMAIN merge.runs : merge.runs[r].live}

\* C27: whatever the interleaving of the cache's evictions and reloads with
\* the inserts, the sorts and the iterators, a block an operation is under
\* way on is pinned and resident and keeps its buffer; the cache evicts and
\* reloads only blocks no operation is under way on.
C27_NoEvictionInUse ==
    /\ [](\A b \in BlocksInUse :
             isPinned(blocks[b]) /\ isResident(blocks[b]))
    /\ [](sorter.pc = "sorting" => sorter.blk \in BlocksInUse)
    /\ [][\A b \in DOMAIN blocks :
             /\ IsCall("releaseData", b) =>
                   (b \notin BlocksInUse /\ ~isPinned(blocks[b]))
             /\ IsCall("setData", b) => b \notin BlocksInUse
             /\ (b \in BlocksInUse /\ b \in BlocksInUse') =>
                   /\ address(blocks'[b]) = address(blocks[b])
                   /\ isStored(blocks'[b]) = isStored(blocks[b])
      ]_vars
    /\ [][\A b \in DOMAIN blocks' :
             (IsCall("insertTuple", b) /\ lastOp'.ret = TRUE) =>
                 (isPinned(blocks'[b]) /\ isResident(blocks'[b]))
      ]_vars

\* the cache has stored the second block of the table while the sort of the
\* first one, which has compared and swapped tuples, is not yet over
C27_Witness ==
    /\ lastOp.op = "releaseData" /\ lastOp.blk = 1
    /\ ~isResident(blocks[1])
    /\ sorter.pc = "sorting" /\ sorter.blk = 0
    /\ sorter.ncmp >= 1 /\ sorter.nswap >= 1
    /\ isPinned(blocks[0]) /\ isResident(blocks[0])

----------------------------------------------------------------------------
(* C28 *)

\* the innermost call of the sort in progress
TopFrame == sorter.stack[Len(sorter.stack)]

\* m_compare on the tuples at the indexes k and l of the range of the
\* innermost call
RangeLess(k, l) ==
    FirstFieldComparator(blocks[sorter.blk].data, address(blocks[sorter.blk]),
                         ItPlus(TopFrame.beginIt, k), ItPlus(TopFrame.beginIt, l))

\* C28: after each partition step of sort, which is made on a range of more
\* than 4 tuples, with p the index pivot is assigned (beginIt + i): every
\* tuple at an index below p is less than the tuple at p, and no tuple at an
\* index above p is less than the tuple at p.
C28_PartitionPostcondition ==
    (sorter.pc = "sorting" /\ TopFrame.at = "recurse") =>
        /\ TopFrame.n > 4
        /\ TopFrame.n = RangeSize(TopFrame)
        /\ TopFrame.i \in 0..(TopFrame.n - 1)
        /\ \A k \in 0..(TopFrame.i - 1) : RangeLess(k, TopFrame.i)
        /\ \A k \in (TopFrame.i + 1)..(TopFrame.n - 1) : ~RangeLess(k, TopFrame.i)

\* a partition step is over in which the pivot, the last tuple of the range,
\* was not swapped because the tuple at p, which is another tuple, is
\* equivalent to it; there are tuples below p and a greater tuple above p
C28_Witness ==
    /\ sorter.pc = "sorting" /\ TopFrame.at = "recurse"
    /\ TopFrame.i \in 1..(TopFrame.n - 2)
    /\ ~RangeLess(TopFrame.n - 1, TopFrame.i)
    /\ ~RangeLess(TopFrame.i, TopFrame.n - 1)
    /\ \E k \in (TopFrame.i + 1)..(TopFrame.n - 2) : RangeLess(TopFrame.i, k)

----------------------------------------------------------------------------
(* C29 *)

\* floor(log2(n)) for n >= 1
RECURSIVE FloorLog2(_)
FloorLog2(n) == IF n <= 1 THEN 0 ELSE 1 + FloorLog2(n \div 2)

\* 2 to the power k
RECURSIVE Pow2(_)
Pow2(k) == IF k <= 0 THEN 1 ELSE 2 * Pow2(k - 1)

\* the calls of sort that are recursive calls: all but the first
RecursionDepth == Len(sorter.stack) - 1

\* C29: the recursive call of sort is made on the partition that is not
\* larger than the other, with which the loop goes on, the two being the
\* range without the pivot; a call at depth d has a range of at most
\* n / 2^d tuples, so for a range of n tuples the depth of the recursion is
\* never more than floor(log2(n)).
C29_RecursionOnSmallerSide ==
    /\ [](sorter.pc = "sorting" =>
             /\ \A k \in 1..Len(sorter.stack) :
                   RangeSize(sorter.stack[k]) * Pow2(k - 1) <= SortCount
             /\ SortCount >= 1 => RecursionDepth <= FloorLog2(SortCount)
             /\ SortCount = 0 => RecursionDepth = 0)
    /\ [][(sorter.pc = "sorting" /\ sorter'.pc = "sorting"
             /\ Len(sorter'.stack) = Len(sorter.stack) + 1) =>
            LET d      == Len(sorter.stack)
                called == sorter'.stack[d + 1]
                loop   == sorter'.stack[d]
            IN /\ sorter.stack[d].at = "recurse"
               /\ called.at = "top" /\ loop.at = "top"
               /\ RangeSize(called) <= RangeSize(loop)
               /\ RangeSize(called) + RangeSize(loop) + 1 = RangeSize(sorter.stack[d])
               /\ \/ /\ called.endIt = ItPlus(sorter.stack[d].beginIt, sorter.stack[d].i)
                     /\ loop.beginIt = ItPlus(called.endIt, 1)
                  \/ /\ loop.endIt = ItPlus(sorter.stack[d].beginIt, sorter.stack[d].i)
                     /\ called.beginIt = ItPlus(loop.endIt, 1)
      ]_vars

\* sort has just called itself for a partition of at least one tuple that is
\* smaller than the other, the right one, in a range of as many tuples as
\* the block may hold
C29_Witness ==
    /\ sorter.pc = "sorting" /\ RecursionDepth = 1
    /\ TopFrame.at = "top"
    /\ RangeSize(TopFrame) >= 1
    /\ RangeSize(TopFrame) < RangeSize(sorter.stack[1])
    /\ TopFrame.beginIt = ItPlus(sorter.stack[1].endIt, 1)
    /\ SortCount >= 7

----------------------------------------------------------------------------
(* C30 *)

\* C30: sort terminates: a sort that was called returns; the range of each
\* recursive call and the range each iteration of the loop goes on with are
\* strictly smaller than the range they come from, neither holding the
\* pivot's position.
C30_SortTerminates ==
    /\ [][(sorter.pc = "sorting" /\ sorter'.pc = "sorting"
             /\ Len(sorter'.stack) = Len(sorter.stack) + 1) =>
            LET d      == Len(sorter.stack)
                pivot  == ItPlus(sorter.stack[d].beginIt, sorter.stack[d].i)
                called == sorter'.stack[d + 1]
                loop   == sorter'.stack[d]
            IN /\ RangeSize(called) < RangeSize(sorter.stack[d])
               /\ RangeSize(loop) < RangeSize(sorter.stack[d])
               /\ RangeSize(called) >= 0 /\ RangeSize(loop) >= 0
               /\ ~(ItLess(pivot, called.endIt) /\ ~ItLess(pivot, called.beginIt))
               /\ ~(ItLess(pivot, loop.endIt) /\ ~ItLess(pivot, loop.beginIt))
      ]_vars
    /\ [][(sorter.pc = "sorting" /\ sorter'.pc = "sorting") =>
             Len(sorter'.stack) <= Len(sorter.stack) + 1]_vars
    /\ ((sorter.pc = "sorting") ~> (sorter.pc = "done"))

\* the sort of a block of at least seven tuples, which has partitioned the
\* range, called itself and swapped tuples, has returned
C30_Witness ==
    /\ sorter.pc = "done"
    /\ sorter.stack = <<>>
    /\ SortCount >= 7
    /\ sorter.nswap >= 2
    /\ sorter.ncmp >= SortCount

----------------------------------------------------------------------------
(* C31 *)

\* the runs that were created and not destroyed
LiveRuns == {r \in DOMAIN merge.runs : merge.runs[r].live}

\* C31: the merge loop, once entered, ends with an empty queue.  Each
\* iteration is a pop, one insertion into the output and an advance; the
\* run is pushed back if and only if advance() returned true, and a run
\* whose advance() returned false is destroyed then, stays destroyed and is
\* neither in the queue nor the run of a later iteration.
C31_MergeLoopTerminates ==
    /\ [](merge.pc \in {"phase2", "done"} =>
             /\ RunsIn(merge.queue) \subseteq LiveRuns
             /\ Cardinality(RunsIn(merge.queue)) = Len(merge.queue)
             /\ (merge.pc = "phase2" /\ merge.at \in {"emit", "advance"}) =>
                   (merge.run \in LiveRuns /\ merge.run \notin RunsIn(merge.queue))
             /\ (merge.pc = "done" \/ merge.at = "pop") =>
                   LiveRuns = RunsIn(merge.queue)
             /\ merge.pc = "done" => (merge.queue = <<>> /\ LiveRuns = {}))
    /\ [][/\ lastOp'.op = "pop" =>
              (merge.at = "pop" /\ merge'.at = "emit" /\ merge'.output = merge.output)
          /\ lastOp'.op = "emit" =>
              /\ merge.at = "emit" /\ merge'.at = "advance"
              /\ merge'.output = Append(merge.output, RunKeys[merge.run])
              /\ merge'.queue = merge.queue
          /\ lastOp'.op = "advance" =>
              /\ merge.at = "advance" /\ merge'.at = "pop"
              /\ merge'.output = merge.output
              /\ lastOp'.ret = TRUE =>
                    /\ RunsIn(merge'.queue) = RunsIn(merge.queue) \cup {merge.run}
                    /\ merge'.runs[merge.run].pos = merge.runs[merge.run].pos + 1
                    /\ merge'.runs[merge.run].live
              /\ lastOp'.ret = FALSE =>
                    /\ merge'.queue = merge.queue
                    /\ ~merge'.runs[merge.run].live
          /\ \A r \in DOMAIN merge.runs :
                /\ ~merge.runs[r].live => ~merge'.runs[r].live
                /\ (merge.runs[r].live /\ ~merge'.runs[r].live) =>
                      (lastOp'.op = "advance" /\ lastOp'.ret = FALSE /\ r = merge.run)
          /\ (merge.pc = "phase2" /\ merge'.output # merge.output) => lastOp'.op = "emit"
      ]_vars
    /\ ((merge.pc = "phase2") ~> (merge.pc = "done" /\ merge.queue = <<>>))

\* the merge loop over as many runs as the table may have blocks, runs of
\* several tuples among them, has ended: the queue is empty and every run
\* was destroyed
C31_Witness ==
    /\ merge.pc = "done" /\ lastOp.op = "done"
    /\ merge.queue = <<>>
    /\ Cardinality(DOMAIN merge.runs) = LoopNumBlocks
    /\ LiveRuns = {}
    /\ \E r \in DOMAIN merge.runs : merge.runs[r].pos >= 1
    /\ Len(merge.output) >= LoopNumBlocks + 2

----------------------------------------------------------------------------
(* C32 *)

\* the sum of f[r] over the runs r of S
RECURSIVE Total(_, _)
Total(f, S) ==
    IF S = {} THEN 0
    ELSE LET r == CHOOSE x \in S : TRUE IN f[r] + Total(f, S \ {r})

\* the tuples each run has given to the output when an iteration begins: a
\* run in the queue those before its current tuple, a destroyed run all of
\* its tuples
Emitted ==
    [r \in DOMAIN merge.runs |->
        IF merge.runs[r].live THEN merge.runs[r].pos ELSE merge.runs[r].pos + 1]

\* the tuples each run still has to give: its current tuple and those its
\* iterator has not read
NotEmitted ==
    [r \in DOMAIN merge.runs |->
        IF merge.runs[r].live
        THEN activeTupleCount(blocks[r]) - merge.runs[r].pos ELSE 0]

\* the merge loop is at the top of an iteration, or over
AtLoopTop == (merge.pc = "phase2" /\ merge.at = "pop") \/ merge.pc = "done"

\* C32: at the top of every iteration of the merge loop, the tuples in the
\* output and the tuples the runs in the queue have not yet given (the
\* current tuple of each and those after it) are together as many as the
\* input tuples; the output holds of each run the tuples before its current
\* one, each appended once when it was the current tuple, the current tuple
\* moving on by one tuple at a time.
C32_MergeConservesTuples ==
    /\ [](AtLoopTop =>
             /\ Len(merge.output) + Total(NotEmitted, RunsIn(merge.queue))
                   = merge.numOriginalTuples
             /\ Len(merge.output) = Total(Emitted, DOMAIN merge.runs)
             /\ \A r \in RunsIn(merge.queue) : NotEmitted[r] >= 1)
    /\ [][/\ lastOp'.op = "emit" =>
              merge'.output =
                 Append(merge.output,
                        getNValue0(blocks[merge.run].data, address(blocks[merge.run]),
                                   TupleAddress(blocks[merge.run],
                                                merge.runs[merge.run].pos)))
          /\ (merge.pc = "phase2" /\ merge'.pc = "phase2") =>
                \A r \in DOMAIN merge.runs :
                   /\ merge'.runs[r].pos \in {merge.runs[r].pos, merge.runs[r].pos + 1}
                   /\ merge'.runs[r].pos # merge.runs[r].pos =>
                         (lastOp'.op = "advance" /\ r = merge.run /\ merge.at = "advance")
                   /\ (r \in DOMAIN blocks /\ r \in DOMAIN blocks') =>
                         blocks'[r] = blocks[r]
      ]_vars
    /\ [](merge.pc = "phase2" =>
             \A r \in DOMAIN merge.runs :
                merge.runs[r].live =>
                   (r \in DOMAIN blocks
                      /\ merge.runs[r].pos \in 0..(activeTupleCount(blocks[r]) - 1)))

\* an iteration of the merge loop begins with tuples in the output, a run in
\* the queue that has given a tuple and still has others, another run in
\* the queue, and a run that was destroyed
C32_Witness ==
    /\ merge.pc = "phase2" /\ merge.at = "pop"
    /\ Len(merge.output) >= 3
    /\ Len(merge.output) < merge.numOriginalTuples
    /\ Len(merge.queue) >= 2
    /\ \E r \in RunsIn(merge.queue) : merge.runs[r].pos >= 1 /\ NotEmitted[r] >= 2
    /\ \E r \in DOMAIN merge.runs : ~merge.runs[r].live

----------------------------------------------------------------------------
(* C33 *)

\* the index of the tuple that is at index k once the tuples at the indexes
\* i and j have changed places
Exchanged(i, j, k) == IF k = i THEN j ELSE IF k = j THEN i ELSE k

\* the offsets of the buffer of block b that are not in its tuple region
OutsideTuples(b) ==
    {o \in DOMAIN blocks[b].data :
        o >= blocks[b].m_tupleInsertionPoint - blocks[b].m_storage}

\* C33: the sort changes only cells of the tuple region.  Each of its steps
\* leaves the block's buffer address, its two insertion points, its tuple
\* count, its pinned and stored flags and every cell outside the tuple
\* region as they are, and either changes nothing or makes two tuples
\* change places, each with its string ref, which reads the same string
\* after the step as before; so the cells outside the tuple region are, all
\* through the sort, those sort was called with.
C33_SortFrame ==
    /\ [](sorter.pc \in {"sorting", "done"} =>
             \A o \in OutsideTuples(sorter.blk) :
                blocks[sorter.blk].data[o] = sorter.input[o])
    /\ [][sorter.pc = "sorting" =>
            LET b    == sorter.blk
                old  == blocks[b]
                new  == blocks'[b]
                n    == activeTupleCount(old)
            IN /\ new.m_storage = old.m_storage
               /\ new.m_tupleInsertionPoint = old.m_tupleInsertionPoint
               /\ new.m_nonInlinedInsertionPoint = old.m_nonInlinedInsertionPoint
               /\ new.m_activeTupleCount = old.m_activeTupleCount
               /\ new.m_isPinned = old.m_isPinned
               /\ new.m_isStored = old.m_isStored
               /\ \A o \in OutsideTuples(b) : new.data[o] = old.data[o]
               /\ \/ new.data = old.data
                  \/ \E i, j \in 0..(n - 1) :
                        \A k \in 0..(n - 1) :
                           /\ TupleCellsOf(new.data, k)
                                 = TupleCellsOf(old.data, Exchanged(i, j, k))
                           /\ getNValue0(new.data, address(new), TupleAddress(new, k))
                                 = getNValue0(old.data, address(old),
                                              TupleAddress(old, Exchanged(i, j, k)))
               /\ \A c \in BlockIds \ {b} : blocks'[c] = blocks[c]
      ]_vars

\* a sort that has returned has moved tuples with different strings, and a
\* null, in a block whose non-inlined region holds those strings
C33_Witness ==
    /\ sorter.pc = "done"
    /\ sorter.nswap >= 2
    /\ blocks[SortedBlock].data # sorter.input
    /\ getAllocatedPoolMemory(blocks[SortedBlock]) >= 3
    /\ \E i, j, k \in 0..(SortCount - 1) :
          /\ InputCmp(i, j) /\ InputCmp(j, k)
          /\ i > j

----------------------------------------------------------------------------
(* C34 *)

\* what the next step of the sort in progress dereferences
NextAccesses ==
    SortAccesses(TopFrame, blocks[sorter.blk].data, address(blocks[sorter.blk]))

\* the offsets, in the buffer, of the cells of the tuple at index k of the
\* range of the innermost call
CellsOfIndex(k) ==
    {ItPlus(TopFrame.beginIt, k) - address(blocks[sorter.blk]) + c :
        c \in 0..(m_tupleLength - 1)}

\* C34: every tuple a step of sort reads, compares or swaps is at an index
\* in [0, endIt - beginIt) of the range of the call that makes the step,
\* the range lying between begin() and end() of the block; this holds for
\* beginIt[i] after the partition loop when every tuple was less than the
\* pivot; a step changes no cell of a tuple it does not dereference.
C34_SortStaysInRange ==
    /\ [](sorter.pc = "sorting" =>
             /\ \A k \in 1..Len(sorter.stack) :
                   /\ ~ItLess(sorter.stack[k].beginIt, begin(blocks[sorter.blk]))
                   /\ ~ItLess(end(blocks[sorter.blk]), sorter.stack[k].endIt)
                   /\ ~ItLess(sorter.stack[k].endIt, sorter.stack[k].beginIt)
             /\ NextAccesses \subseteq 0..(RangeSize(TopFrame) - 1)
             /\ \A k \in NextAccesses :
                   /\ ~ItLess(ItPlus(TopFrame.beginIt, k), TopFrame.beginIt)
                   /\ ItLess(ItPlus(TopFrame.beginIt, k), TopFrame.endIt)
             /\ TopFrame.at = "pivot" => TopFrame.i \in 0..(TopFrame.n - 1))
    /\ [][sorter.pc = "sorting" =>
             /\ \A o \in DOMAIN blocks[sorter.blk].data :
                   blocks'[sorter.blk].data[o] # blocks[sorter.blk].data[o] =>
                      \E k \in NextAccesses : o \in CellsOfIndex(k)
             /\ sorter'.ncmp # sorter.ncmp => NextAccesses # {}
      ]_vars

\* the partition loop of a range of five tuples or more is over and every
\* tuple was less than the pivot: beginIt[i] is the pivot, the last tuple of
\* the range
C34_Witness ==
    /\ sorter.pc = "sorting" /\ TopFrame.at = "pivot"
    /\ TopFrame.n >= 5
    /\ TopFrame.i = TopFrame.n - 1
    /\ NextAccesses = {TopFrame.n - 1}
    /\ \A k \in 0..(TopFrame.n - 2) : RangeLess(k, TopFrame.n - 1)

----------------------------------------------------------------------------
(* C35 *)

\* C35: the current tuple of a run changes only while the run is out of the
\* queue.  advance() is called on the run that was popped, which is not in
\* the queue, before it is pushed again; no step changes the position or the
\* current tuple of a run that is in the queue before and after the step.
C35_QueuedKeysConstant ==
    /\ []((merge.pc = "phase2" /\ merge.at \in {"emit", "advance"}) =>
             merge.run \notin RunsIn(merge.queue))
    /\ [][/\ lastOp'.op = "pop" => merge'.run \notin RunsIn(merge'.queue)
          /\ lastOp'.op = "advance" =>
                /\ merge.at = "advance" /\ lastOp'.blk = merge.run
                /\ merge.run \notin RunsIn(merge.queue)
          /\ \A r \in RunsIn(merge.queue) \cap RunsIn(merge'.queue) :
                /\ merge'.runs[r] = merge.runs[r]
                /\ RunKeys'[r] = RunKeys[r]
          /\ \A r \in DOMAIN merge.runs :
                (merge'.runs[r].pos # merge.runs[r].pos) =>
                   (lastOp'.op = "advance" /\ r = merge.run
                      /\ r \notin RunsIn(merge.queue))
      ]_vars

\* advance() has moved the run that was popped to a tuple with another key
\* and the run is back in the queue, in which two other runs have stayed
C35_Witness ==
    /\ lastOp.op = "advance" /\ lastOp.ret = TRUE
    /\ merge.pc = "phase2" /\ merge.at = "pop"
    /\ merge.run \in RunsIn(merge.queue)
    /\ Len(merge.queue) >= 3
    /\ merge.runs[merge.run].pos >= 1
    /\ RunKeys[merge.run] # merge.output[Len(merge.output)]

============================================================================
